---- MODULE Spec2Model ----
(***************************************************************************)
(* snapstash: the backup-artifact engine.                                  *)
(*   - binary envelope codec        (src/backup-format.js)                 *)
(*   - text / encryption envelope   (src/backup-format.js, crypto)         *)
(*   - restore pipeline             (src/restore.js)                       *)
(*   - filesystem collection        (src/backup.js)                        *)
(* Strings are sequences of code points, buffers are sequences of bytes,   *)
(* base64 text is a sequence of alphabet indexes.                          *)
(***************************************************************************)
EXTENDS Integers, Sequences, FiniteSets, TLC

VARIABLES
  cIn, cBuf, cOut, cPc, cCut,                    \* envelope codec run
  tIn, tPw, tPwUsed, tText, tOut, tPc, tFlip,    \* text codec run
  fs, rFile, rPw, rBackup, rItems, rIdx,         \* restore run
  restored, removed, skipped, rPc, rErr, rLog,
  srcTree, srcExcl, collected,                   \* filesystem collection
  giEntries, giConc, giCalls, giPc,              \* index collection: the staged entries, the async callbacks
  pool, workers                                  \* the WorkerPool object, the worker threads

codecVars   == <<cIn, cBuf, cOut, cPc, cCut>>
textVars    == <<tIn, tPw, tPwUsed, tText, tOut, tPc, tFlip>>
restoreVars == <<fs, rFile, rPw, rBackup, rItems, rIdx, restored, removed, skipped, rPc, rErr, rLog>>
collectVars == <<srcTree, srcExcl, collected, giEntries, giConc, giCalls, giPc, pool, workers>>
vars == <<codecVars, textVars, restoreVars, collectVars>>

----------------------------------------------------------------------------
(* JavaScript values that can stand where a string is expected.            *)

Null == <<-1>>
Undef == <<-2>>
UndefList == <<Undef>>
NoValue == <<-3>>

\* no WorkerPool has been constructed
NoPool == [made |-> FALSE, size |-> 0, queue |-> <<>>, idle |-> <<>>, pending |-> {}, taskId |-> 0]

Falsy(x) == x = Null \/ x = Undef \/ x = <<>>

\* value || ""
StrOr(x) == IF Falsy(x) THEN <<>> ELSE x

Min(a, b) == IF a < b THEN a ELSE b

\* buf.subarray(start, end) / buf.toString(enc, start, end): 0-based, clamped
Slice(buf, start, end) == SubSeq(buf, start + 1, Min(end, Len(buf)))

RECURSIVE Flatten(_)
Flatten(ss) == IF ss = <<>> THEN <<>> ELSE Head(ss) \o Flatten(Tail(ss))

----------------------------------------------------------------------------
(* UTF-8, as Buffer.byteLength / buf.write / buf.toString apply it.        *)

ReplacementChar == 65533

Utf8Char(c) == IF c < 128 THEN <<c>> ELSE <<192 + (c \div 64), 128 + (c % 64)>>

RECURSIVE Utf8Encode(_)
Utf8Encode(s) == IF s = <<>> THEN <<>> ELSE Utf8Char(Head(s)) \o Utf8Encode(Tail(s))

RECURSIVE Utf8Decode(_)
Utf8Decode(b) ==
  IF b = <<>> THEN <<>>
  ELSE IF b[1] < 128 THEN <<b[1]>> \o Utf8Decode(Tail(b))
  ELSE IF b[1] >= 194 /\ b[1] < 224 /\ Len(b) >= 2 /\ b[2] >= 128 /\ b[2] < 192
       THEN <<(b[1] - 192) * 64 + (b[2] - 128)>> \o Utf8Decode(Tail(Tail(b)))
  ELSE <<ReplacementChar>> \o Utf8Decode(Tail(b))

----------------------------------------------------------------------------
(* base64: Buffer.toString("base64") and Buffer.from(text, "base64").      *)
(* Alphabet indexes 0..63, 64 is the pad "=", anything above is a          *)
(* character outside the alphabet.                                         *)

B64Pad == 64

\* character k (0-based) of the encoding of b: four characters per three bytes
B64Char(b, k) ==
  LET g == 3 * (k \div 4)
      b1 == b[g + 1]
      b2 == IF g + 2 <= Len(b) THEN b[g + 2] ELSE 0
      b3 == IF g + 3 <= Len(b) THEN b[g + 3] ELSE 0
  IN CASE k % 4 = 0 -> b1 \div 4
       [] k % 4 = 1 -> (b1 % 4) * 16 + (b2 \div 16)
       [] k % 4 = 2 -> IF g + 2 > Len(b) THEN B64Pad ELSE (b2 % 16) * 4 + (b3 \div 64)
       [] OTHER -> IF g + 3 > Len(b) THEN B64Pad ELSE b3 % 64

B64Encode(b) == [k \in 1..(4 * ((Len(b) + 2) \div 3)) |-> B64Char(b, k - 1)]

\* the decoder stops at the first pad and skips characters outside the alphabet
B64Sextets(t) ==
  LET pads == {i \in DOMAIN t : t[i] = B64Pad}
      stop == IF pads = {} THEN Len(t) + 1 ELSE CHOOSE i \in pads : \A j \in pads : i <= j
      keep == {i \in 1..(stop - 1) : t[i] < B64Pad}
  IN IF Cardinality(keep) = stop - 1 THEN SubSeq(t, 1, stop - 1)
     ELSE [k \in 1..Cardinality(keep) |->
             t[CHOOSE i \in keep : Cardinality({j \in keep : j <= i}) = k]]

\* byte k (0-based) of the decoding of the sextets s
B64Byte(s, k) ==
  LET g == 4 * (k \div 3) IN
  CASE k % 3 = 0 -> s[g + 1] * 4 + (s[g + 2] \div 16)
    [] k % 3 = 1 -> (s[g + 2] % 16) * 16 + (s[g + 3] \div 4)
    [] OTHER -> (s[g + 3] % 4) * 64 + s[g + 4]

B64Bytes(s) ==
  LET tail == Len(s) % 4
      n == 3 * (Len(s) \div 4) + (IF tail = 2 THEN 1 ELSE IF tail = 3 THEN 2 ELSE 0)
  IN [k \in 1..n |-> B64Byte(s, k - 1)]

B64Decode(t) == B64Bytes(B64Sextets(t))

----------------------------------------------------------------------------
(* zlib: a lossless stream codec that rejects a stream that is not its own *)
(* or that ends early.  Modelled as a two-byte frame (format byte, payload *)
(* length) followed by the payload.                                        *)

BrFrame == 27
GzFrame == 31

brotliCompress(b) == <<BrFrame, Len(b) % 256>> \o b
gzipCompress(b) == <<GzFrame, Len(b) % 256>> \o b

Inflate(frame, b) ==
  IF Len(b) >= 2 /\ b[1] = frame /\ b[2] = (Len(b) - 2) % 256
  THEN [ok |-> TRUE, value |-> SubSeq(b, 3, Len(b))]
  ELSE [ok |-> FALSE, err |-> "ZlibError"]

brotliDecompress(b) == Inflate(BrFrame, b)
gunzip(b) == Inflate(GzFrame, b)

\* the payload compressed with the other codec
compressPayload_Gzip(b) == gzipCompress(b)

compressPayload(b) == brotliCompress(b)
decompressPayload(b) == brotliDecompress(b)

----------------------------------------------------------------------------
(* Binary envelope codec: src/backup-format.js                             *)

U16Max == 65535
U8Max == 255

U16BE(n) == <<n \div 256, n % 256>>
U32BE(n) == <<n \div 16777216, (n \div 65536) % 256, (n \div 256) % 256, n % 256>>

\* a length prefix counted in characters instead of bytes
writeStringU16_CharLength(value) ==
  LET text == StrOr(value) IN U16BE(Len(text)) \o Utf8Encode(text)

\* writeStringU16(buf, offset, value): the bytes it appends
writeStringU16(value) ==
  LET text == Utf8Encode(StrOr(value)) IN U16BE(Len(text)) \o text

\* writeStringU8(buf, offset, value)
writeStringU8(value) ==
  LET text == Utf8Encode(StrOr(value)) IN <<Len(text)>> \o text

IsArray(x) == x # UndefList

\* backup.source?.mode || "" and friends
SourceField(backup, f) == StrOr(backup.source[f])
SourceExcludes(backup) ==
  IF IsArray(backup.source.excludes) THEN backup.source.excludes ELSE <<>>

\* the integer writes throw a RangeError when the value does not fit
PackFits(backup) ==
  /\ \A f \in {"createdAt", "repoRoot", "head"} : Len(Utf8Encode(StrOr(backup[f]))) <= U16Max
  /\ Len(Utf8Encode(StrOr(backup.payloadEncoding))) <= U8Max
  /\ Len(Utf8Encode(SourceField(backup, "mode"))) <= U8Max
  /\ Len(Utf8Encode(SourceField(backup, "root"))) <= U16Max
  /\ Len(SourceExcludes(backup)) <= U16Max
  /\ \A i \in DOMAIN SourceExcludes(backup) : Len(Utf8Encode(StrOr(SourceExcludes(backup)[i]))) <= U16Max
  /\ backup.version <= U8Max

PackBytes(backup) ==
  LET excludes == SourceExcludes(backup)
      data == IF IsArray(backup.data) THEN backup.data ELSE <<>>
      dataBuffers == [i \in DOMAIN data |-> B64Decode(data[i])]
  IN <<IF backup.version = 0 THEN 2 ELSE backup.version>>
     \o writeStringU16(backup.createdAt)
     \o writeStringU16(backup.repoRoot)
     \o writeStringU16(backup.head)
     \o writeStringU8(backup.payloadEncoding)
     \o writeStringU8(SourceField(backup, "mode"))
     \o writeStringU16(SourceField(backup, "root"))
     \o U16BE(Len(excludes))
     \o Flatten([i \in DOMAIN excludes |-> writeStringU16(excludes[i])])
     \o U32BE(Len(dataBuffers))
     \o Flatten([i \in DOMAIN dataBuffers |-> U32BE(Len(dataBuffers[i])) \o dataBuffers[i]])

packBackupBinary(backup) ==
  IF PackFits(backup) THEN [ok |-> TRUE, value |-> PackBytes(backup)]
  ELSE [ok |-> FALSE, err |-> "RangeError"]

Fail(e) == [ok |-> FALSE, err |-> e]

\* the integer reads throw a RangeError past the end of the buffer
readU8(buf, offset) ==
  IF offset + 1 > Len(buf) THEN Fail("RangeError")
  ELSE [ok |-> TRUE, value |-> buf[offset + 1], offset |-> offset + 1]

readU16(buf, offset) ==
  IF offset + 2 > Len(buf) THEN Fail("RangeError")
  ELSE [ok |-> TRUE, value |-> buf[offset + 1] * 256 + buf[offset + 2], offset |-> offset + 2]

readU32(buf, offset) ==
  IF offset + 4 > Len(buf) THEN Fail("RangeError")
  ELSE [ok |-> TRUE,
        value |-> buf[offset + 1] * 16777216 + buf[offset + 2] * 65536
                  + buf[offset + 3] * 256 + buf[offset + 4],
        offset |-> offset + 4]

\* buf.toString clamps to the end of the buffer: it never throws
readStringU16(buf, offset) ==
  LET r == readU16(buf, offset) IN
  IF ~r.ok THEN r
  ELSE IF r.value = 0 THEN [ok |-> TRUE, value |-> <<>>, offset |-> r.offset]
  ELSE [ok |-> TRUE, value |-> Utf8Decode(Slice(buf, r.offset, r.offset + r.value)),
        offset |-> r.offset + r.value]

readStringU8(buf, offset) ==
  LET r == readU8(buf, offset) IN
  IF ~r.ok THEN r
  ELSE IF r.value = 0 THEN [ok |-> TRUE, value |-> <<>>, offset |-> r.offset]
  ELSE [ok |-> TRUE, value |-> Utf8Decode(Slice(buf, r.offset, r.offset + r.value)),
        offset |-> r.offset + r.value]

\* for (i < exCount) { out = readStringU16(...); excludes.push(out.value) }
RECURSIVE ReadExcludes(_, _, _)
ReadExcludes(buf, offset, n) ==
  IF n = 0 THEN [ok |-> TRUE, value |-> <<>>, offset |-> offset]
  ELSE LET r == readStringU16(buf, offset) IN
       IF ~r.ok THEN r
       ELSE LET rest == ReadExcludes(buf, r.offset, n - 1) IN
            IF ~rest.ok THEN rest
            ELSE [ok |-> TRUE, value |-> <<r.value>> \o rest.value, offset |-> rest.offset]

\* for (i < itemCount) { len = readU32; itemBuf = buffer.subarray(offset, offset + len) }
\* subarray clamps to the end of the buffer: it never throws
RECURSIVE ReadItems(_, _, _)
ReadItems(buf, offset, n) ==
  IF n = 0 THEN [ok |-> TRUE, value |-> <<>>, offset |-> offset]
  ELSE LET r == readU32(buf, offset) IN
       IF ~r.ok THEN r
       ELSE LET itemBuf == Slice(buf, r.offset, r.offset + r.value)
                rest == ReadItems(buf, r.offset + r.value, n - 1)
            IN IF ~rest.ok THEN rest
               ELSE [ok |-> TRUE, value |-> <<B64Encode(itemBuf)>> \o rest.value,
                     offset |-> rest.offset]

unpackBackupBinary(buffer) ==
  LET v == readU8(buffer, 0) IN
  IF ~v.ok THEN Fail(v.err) ELSE
  LET createdAt == readStringU16(buffer, v.offset) IN
  IF ~createdAt.ok THEN Fail(createdAt.err) ELSE
  LET repoRoot == readStringU16(buffer, createdAt.offset) IN
  IF ~repoRoot.ok THEN Fail(repoRoot.err) ELSE
  LET head == readStringU16(buffer, repoRoot.offset) IN
  IF ~head.ok THEN Fail(head.err) ELSE
  LET payloadEncoding == readStringU8(buffer, head.offset) IN
  IF ~payloadEncoding.ok THEN Fail(payloadEncoding.err) ELSE
  LET sourceMode == readStringU8(buffer, payloadEncoding.offset) IN
  IF ~sourceMode.ok THEN Fail(sourceMode.err) ELSE
  LET sourceRoot == readStringU16(buffer, sourceMode.offset) IN
  IF ~sourceRoot.ok THEN Fail(sourceRoot.err) ELSE
  LET exCount == readU16(buffer, sourceRoot.offset) IN
  IF ~exCount.ok THEN Fail(exCount.err) ELSE
  LET excludes == ReadExcludes(buffer, exCount.offset, exCount.value) IN
  IF ~excludes.ok THEN Fail(excludes.err) ELSE
  LET itemCount == readU32(buffer, excludes.offset) IN
  IF ~itemCount.ok THEN Fail(itemCount.err) ELSE
  LET data == ReadItems(buffer, itemCount.offset, itemCount.value) IN
  IF ~data.ok THEN Fail(data.err) ELSE
  [ok |-> TRUE,
   value |-> [version |-> v.value,
              createdAt |-> createdAt.value,
              repoRoot |-> repoRoot.value,
              head |-> IF head.value = <<>> THEN Null ELSE head.value,
              payloadEncoding |-> payloadEncoding.value,
              source |-> [mode |-> IF sourceMode.value = <<>> THEN Undef ELSE sourceMode.value,
                          root |-> IF sourceRoot.value = <<>> THEN Undef ELSE sourceRoot.value,
                          excludes |-> IF excludes.value = <<>> THEN UndefList ELSE excludes.value],
              data |-> data.value]]

----------------------------------------------------------------------------
(* Encryption envelope.  encryptRaw / decryptRaw are imported by           *)
(* src/backup-format.js from ./crypto; they are the buffer-level form of   *)
(* encryptBuffer / decryptBuffer: scrypt key derivation over a random      *)
(* 16-byte salt, AES-256-GCM with a random 12-byte nonce, 16-byte tag.     *)
(* The key is the pair (password, salt); the cipher adds a key stream to   *)
(* the plain bytes; the tag is a checksum over key, nonce and ciphertext   *)
(* that any single-byte change of one of them changes.                     *)

RECURSIVE SumRange(_, _, _)
SumRange(q, lo, hi) ==
  IF lo > hi THEN 0
  ELSE IF lo = hi THEN q[lo]
  ELSE LET mid == (lo + hi) \div 2 IN SumRange(q, lo, mid) + SumRange(q, mid + 1, hi)

Sum(q) == SumRange(q, 1, Len(q))

WeightedSum(q, i) == Sum([k \in DOMAIN q |-> (i + k - 1) * q[k]])

SaltLen == 16
IvLen == 12
TagLen == 16

deriveKey(password, salt) == <<password, salt>>

KeyStream(key, iv, i) == (Sum(key[1]) + 3 * Sum(key[2]) + 5 * Sum(iv) + 7 * i) % 256

AuthTag(key, iv, ciphertext) ==
  [i \in 1..TagLen |->
     CASE i = 1 -> Sum(key[1]) % 256
       [] i = 2 -> Sum(key[2]) % 256
       [] i = 3 -> Sum(iv) % 256
       [] i = 4 -> Sum(ciphertext) % 256
       [] i = 5 -> WeightedSum(ciphertext, 1) % 256
       [] i = 6 -> Len(ciphertext) % 256
       [] OTHER -> (Sum(key[1]) + i) % 256]

encryptRaw(plain, password, salt, iv) ==
  LET key == deriveKey(password, salt)
      ciphertext == [i \in DOMAIN plain |-> (plain[i] + KeyStream(key, iv, i)) % 256]
  IN [salt |-> salt, iv |-> iv, tag |-> AuthTag(key, iv, ciphertext), ciphertext |-> ciphertext]

\* decipher.final() throws when the tag does not authenticate the data
decryptRaw(ciphertext, salt, iv, tag, password) ==
  LET key == deriveKey(password, salt) IN
  IF tag # AuthTag(key, iv, ciphertext) THEN Fail("AuthError")
  ELSE [ok |-> TRUE,
        value |-> [i \in DOMAIN ciphertext |-> (ciphertext[i] + 256 - KeyStream(key, iv, i)) % 256]]

----------------------------------------------------------------------------
(* Text transport: src/backup-format.js.  Characters of a text are base64  *)
(* alphabet indexes (0..63), the pad (64) and, above it, the characters    *)
(* outside the alphabet that the formats use.                              *)

Colon == 65
Newline == 66
Brace == 67

MAGIC == <<83, 83, 66, 75>>
VERSION == 2
FLAG_COMPRESSED == 1
HEADER_LEN == 4 + 1 + 1 + 16 + 12 + 16

\* "SSP1:"
PlainTag == <<18, 18, 15, 53, Colon>>

StartsWith(text, prefix) ==
  Len(text) >= Len(prefix) /\ SubSeq(text, 1, Len(prefix)) = prefix

RECURSIVE TrimStart(_)
TrimStart(t) == IF t # <<>> /\ Head(t) = Newline THEN TrimStart(Tail(t)) ELSE t

RECURSIVE TrimEnd(_)
TrimEnd(t) == IF t # <<>> /\ t[Len(t)] = Newline THEN TrimEnd(SubSeq(t, 1, Len(t) - 1)) ELSE t

Trim(t) == TrimEnd(TrimStart(t))

encodeEncryptedToText(backup, password, salt, iv) ==
  LET binary == packBackupBinary(backup) IN
  IF ~binary.ok THEN binary ELSE
  LET compressed == compressPayload(binary.value)
      encrypted == encryptRaw(compressed, password, salt, iv)
      header == MAGIC \o <<VERSION, FLAG_COMPRESSED>> \o encrypted.salt \o encrypted.iv \o encrypted.tag
  IN [ok |-> TRUE, value |-> B64Encode(header \o encrypted.ciphertext)]

decodeEncryptedFromText(text, password) ==
  LET raw == B64Decode(Trim(text)) IN
  IF Len(raw) < HEADER_LEN THEN Fail("FormatError:length")
  ELSE IF Slice(raw, 0, 4) # MAGIC THEN Fail("FormatError:magic")
  ELSE IF raw[5] # VERSION THEN Fail("VersionError")
  ELSE LET flags == raw[6]
           salt == Slice(raw, 6, 22)
           iv == Slice(raw, 22, 34)
           tag == Slice(raw, 34, 50)
           ciphertext == Slice(raw, 50, Len(raw))
       IN IF Len(ciphertext) = 0 THEN Fail("FormatError:ciphertext")
          ELSE LET decrypted == decryptRaw(ciphertext, salt, iv, tag, password) IN
               IF ~decrypted.ok THEN decrypted
               ELSE IF flags % 2 = FLAG_COMPRESSED
                    THEN LET payload == decompressPayload(decrypted.value) IN
                         IF ~payload.ok THEN payload ELSE unpackBackupBinary(payload.value)
                    ELSE unpackBackupBinary(decrypted.value)

encodePlainToText(backup) ==
  LET binary == packBackupBinary(backup) IN
  IF ~binary.ok THEN binary
  ELSE [ok |-> TRUE, value |-> PlainTag \o B64Encode(compressPayload(binary.value))]

decodePlainFromText(text) ==
  LET value == IF StartsWith(text, PlainTag) THEN SubSeq(text, 6, Len(text)) ELSE Trim(text)
      payload == decompressPayload(B64Decode(value))
  IN IF ~payload.ok THEN payload ELSE unpackBackupBinary(payload.value)

isEncryptedText(text) ==
  LET raw == B64Decode(Trim(text)) IN
  IF Len(raw) < 4 THEN FALSE ELSE Slice(raw, 0, 4) = MAGIC

\* a decode failure on the encrypted path answered by trying the plain path
parseBackupText_Fallback(text, password) ==
  LET trimmed == Trim(text) IN
  IF StartsWith(trimmed, PlainTag) THEN decodePlainFromText(trimmed)
  ELSE IF isEncryptedText(trimmed) /\ ~Falsy(password)
          /\ decodeEncryptedFromText(trimmed, password).ok
       THEN decodeEncryptedFromText(trimmed, password)
  ELSE decodePlainFromText(trimmed)

\* a password taken to mean that the artifact is encrypted
parseBackupText_ByPassword(text, password) ==
  LET trimmed == Trim(text) IN
  IF ~Falsy(password) THEN decodeEncryptedFromText(trimmed, password)
  ELSE IF StartsWith(trimmed, PlainTag) THEN decodePlainFromText(trimmed)
  ELSE IF isEncryptedText(trimmed) THEN Fail("PasswordRequired")
  ELSE decodePlainFromText(trimmed)

parseBackupText(text, password) ==
  LET trimmed == Trim(text) IN
  IF StartsWith(trimmed, PlainTag) THEN decodePlainFromText(trimmed)
  ELSE IF isEncryptedText(trimmed)
       THEN IF Falsy(password) THEN Fail("PasswordRequired")
            ELSE decodeEncryptedFromText(trimmed, password)
  ELSE decodePlainFromText(trimmed)

----------------------------------------------------------------------------
(* Paths (POSIX).  A path string is a sequence of tokens: a separator      *)
(* ("/" or "\\") or a maximal run of other characters ("..", ".", a name). *)

Sep == "/"
BackSep == "\\"

\* an absent (undefined) path string, mode string, base64 text
NoPath == <<"?undefined">>
NoAtom == "?undefined"
NoText == <<-2>>

\* p.replaceAll("\\", "/")
SlashOnly(p) == [i \in DOMAIN p |-> IF p[i] = BackSep THEN Sep ELSE p[i]]

\* path.isAbsolute(p)
isAbsolute(p) == p # <<>> /\ p[1] = Sep

\* the components of a path string between "/" separators
RECURSIVE Segments(_)
Segments(p) ==
  IF p = <<>> THEN <<>>
  ELSE IF Head(p) = Sep THEN Segments(Tail(p))
  ELSE <<Head(p)>> \o Segments(Tail(p))

\* normalizeString: resolve "." and ".."; a relative path keeps leading ".."
RECURSIVE NormalizeSegs(_, _, _)
NormalizeSegs(done, todo, absolute) ==
  IF todo = <<>> THEN done
  ELSE LET c == Head(todo) IN
       IF c = "." THEN NormalizeSegs(done, Tail(todo), absolute)
       ELSE IF c = ".."
            THEN IF done # <<>> /\ done[Len(done)] # ".."
                 THEN NormalizeSegs(SubSeq(done, 1, Len(done) - 1), Tail(todo), absolute)
                 ELSE IF absolute THEN NormalizeSegs(done, Tail(todo), absolute)
                 ELSE NormalizeSegs(Append(done, c), Tail(todo), absolute)
       ELSE NormalizeSegs(Append(done, c), Tail(todo), absolute)

RECURSIVE JoinSegs(_)
JoinSegs(segs) ==
  IF segs = <<>> THEN <<>>
  ELSE IF Len(segs) = 1 THEN segs
  ELSE <<Head(segs), Sep>> \o JoinSegs(Tail(segs))

\* path.posix.normalize(p)
posixNormalize(p) ==
  IF p = <<>> THEN <<".">>
  ELSE LET absolute == isAbsolute(p)
           trailing == p[Len(p)] = Sep
           body == JoinSegs(NormalizeSegs(<<>>, Segments(p), absolute))
       IN IF body = <<>>
          THEN (IF absolute THEN <<Sep>> ELSE IF trailing THEN <<".", Sep>> ELSE <<".">>)
          ELSE (IF absolute THEN <<Sep>> ELSE <<>>) \o body \o (IF trailing THEN <<Sep>> ELSE <<>>)

\* the check accepts a path only after the leading-".." test on the raw form
assertSafeRepoRelativePath_RawPrefix(p) ==
  IF p = NoPath \/ p = <<>> THEN Fail("PathSafety:empty")
  ELSE IF isAbsolute(p) THEN Fail("PathSafety:absolute")
  ELSE IF p[1] = ".." THEN Fail("PathSafety:escape")
  ELSE [ok |-> TRUE, value |-> posixNormalize(SlashOnly(p))]

assertSafeRepoRelativePath(p) ==
  IF p = NoPath \/ p = <<>> THEN Fail("PathSafety:empty")
  ELSE IF isAbsolute(p) THEN Fail("PathSafety:absolute")
  ELSE LET normalized == posixNormalize(SlashOnly(p)) IN
       IF normalized[1] = ".." THEN Fail("PathSafety:escape")
       ELSE [ok |-> TRUE, value |-> normalized]

\* where the restore root lives, as components from the filesystem root
RepoRoot == <<"r">>

\* path.resolve(repoRoot, relPath): a location, components from the filesystem root
pathResolve(root, rel) ==
  IF isAbsolute(rel) THEN NormalizeSegs(<<>>, Segments(rel), TRUE)
  ELSE NormalizeSegs(<<>>, root \o Segments(rel), TRUE)

\* path.dirname of a location
Dirname(loc) == IF loc = <<>> THEN <<>> ELSE SubSeq(loc, 1, Len(loc) - 1)

----------------------------------------------------------------------------
(* Filesystem.  fs maps each existing location to its node; the root       *)
(* directory <<>> always exists.  Symlinks are followed as the kernel      *)
(* follows them.                                                           *)

DirNode == [kind |-> "dir", content |-> <<>>, target |-> <<>>, perm |-> "755"]
FileNode(content, perm) == [kind |-> "file", content |-> content, target |-> <<>>, perm |-> perm]
LinkNode(target) == [kind |-> "link", content |-> <<>>, target |-> target, perm |-> "777"]

Exists(f, loc) == loc = <<>> \/ loc \in DOMAIN f
KindAt(f, loc) == IF loc = <<>> THEN "dir" ELSE IF loc \in DOMAIN f THEN f[loc].kind ELSE "none"

MaxLinkHops == 4

Put(f, loc, node) == [l \in (DOMAIN f) \cup {loc} |-> IF l = loc THEN node ELSE f[l]]
Drop(f, loc) == [l \in (DOMAIN f) \ {loc} |-> f[l]]

\* Resolve components `todo` from directory `cur`, following symlinks in every
\* component but the last, and in the last one too when followLast.
\* ok: the location named (which may not exist); otherwise the errno.
RECURSIVE Walk(_, _, _, _, _)
Walk(f, cur, todo, followLast, hops) ==
  IF todo = <<>> THEN [ok |-> TRUE, loc |-> cur]
  ELSE LET c == Head(todo)
           rest == Tail(todo)
           cand == Append(cur, c)
       IN IF c = "." THEN Walk(f, cur, rest, followLast, hops)
          ELSE IF c = ".." THEN Walk(f, Dirname(cur), rest, followLast, hops)
          ELSE IF ~Exists(f, cand)
               THEN IF rest = <<>> THEN [ok |-> TRUE, loc |-> cand] ELSE Fail("ENOENT")
          ELSE IF f[cand].kind = "link" /\ (rest # <<>> \/ followLast)
               THEN IF hops = 0 THEN Fail("ELOOP")
                    ELSE Walk(f, IF isAbsolute(f[cand].target) THEN <<>> ELSE cur,
                              Segments(f[cand].target) \o rest, followLast, hops - 1)
          ELSE IF f[cand].kind = "file" /\ rest # <<>> THEN Fail("ENOTDIR")
          ELSE Walk(f, cand, rest, followLast, hops)

Lstat(f, loc) == Walk(f, <<>>, loc, FALSE, MaxLinkHops)
Stat(f, loc) == Walk(f, <<>>, loc, TRUE, MaxLinkHops)

\* fs.rmSync(p, { force: true }): unlinks a file or a symlink; a missing
\* path is not an error; a directory is an error (no recursive flag).
\* Result: the filesystem after the call, whether it threw, what it removed.
rmSyncForce(f, loc) ==
  LET r == Lstat(f, loc) IN
  IF ~r.ok THEN [fs |-> f, threw |-> r.err # "ENOENT", removed |-> <<>>]
  ELSE IF ~Exists(f, r.loc) THEN [fs |-> f, threw |-> FALSE, removed |-> <<>>]
  ELSE IF KindAt(f, r.loc) = "dir" THEN [fs |-> f, threw |-> TRUE, removed |-> <<>>]
  ELSE [fs |-> Drop(f, r.loc), threw |-> FALSE, removed |-> <<r.loc>>]

\* the removal without its try / catch
removeIfExists_NoCatch(f, loc) == rmSyncForce(f, loc)

\* removeIfExists: try { fs.rmSync(p, { force: true }) } catch { }
removeIfExists(f, loc) == [rmSyncForce(f, loc) EXCEPT !.threw = FALSE]

\* fs.mkdirSync(dir, { recursive: true }): creates every missing component.
\* Result: ok, the filesystem after the call, the directories it created.
RECURSIVE MkdirP(_, _, _, _)
MkdirP(f, loc, n, made) ==
  IF n > Len(loc) THEN [ok |-> TRUE, fs |-> f, made |-> made]
  ELSE LET r == Stat(f, SubSeq(loc, 1, n)) IN
       IF ~r.ok THEN [ok |-> FALSE, err |-> r.err, fs |-> f, made |-> made]
       ELSE IF ~Exists(f, r.loc)
            THEN IF Exists(f, Dirname(r.loc)) /\ KindAt(f, Dirname(r.loc)) = "dir"
                 THEN MkdirP(Put(f, r.loc, DirNode), loc, n + 1, Append(made, r.loc))
                 ELSE [ok |-> FALSE, err |-> "ENOENT", fs |-> f, made |-> made]
       ELSE IF KindAt(f, r.loc) = "dir" THEN MkdirP(f, loc, n + 1, made)
       ELSE [ok |-> FALSE, err |-> "ENOTDIR", fs |-> f, made |-> made]

\* ensureParentDir(fileAbsPath)
ensureParentDir(f, loc) == MkdirP(f, Dirname(loc), 1, <<>>)

DefaultPerm == "644"

\* fs.writeFileSync(p, content): follows a symlink at p; creates or truncates.
\* Result: ok, the filesystem after the call, the location written.
writeFileSync(f, loc, content) ==
  LET r == Stat(f, loc) IN
  IF ~r.ok THEN [ok |-> FALSE, err |-> r.err, fs |-> f]
  ELSE IF r.loc = <<>> \/ KindAt(f, r.loc) = "dir" THEN [ok |-> FALSE, err |-> "EISDIR", fs |-> f]
  ELSE IF KindAt(f, r.loc) = "link" THEN [ok |-> FALSE, err |-> "ELOOP", fs |-> f]
  ELSE IF ~Exists(f, r.loc) /\ ~(Exists(f, Dirname(r.loc)) /\ KindAt(f, Dirname(r.loc)) = "dir")
       THEN [ok |-> FALSE, err |-> "ENOENT", fs |-> f]
  ELSE [ok |-> TRUE, at |-> r.loc,
        fs |-> Put(f, r.loc, FileNode(content, IF Exists(f, r.loc) THEN f[r.loc].perm ELSE DefaultPerm))]

\* Number.parseInt(modeStr, 8) & 0o777, for the modes git and stat produce
PermBits(modeStr) ==
  CASE modeStr = "100644" -> "644"
    [] modeStr = "100755" -> "755"
    [] modeStr = "120000" -> "000"
    [] modeStr = "160000" -> "000"
    [] OTHER -> "NaN"

\* tryChmod(fileAbsPath, modeStr): failures are swallowed
tryChmod(f, loc, modeStr) ==
  IF modeStr = NoAtom \/ PermBits(modeStr) = "NaN" THEN f
  ELSE LET r == Stat(f, loc) IN
       IF r.ok /\ r.loc # <<>> /\ Exists(f, r.loc)
       THEN [f EXCEPT ![r.loc].perm = PermBits(modeStr)]
       ELSE f

\* fs.symlinkSync(target, p): never follows a symlink at p
symlinkSync(f, target, loc) ==
  LET r == Lstat(f, loc) IN
  IF ~r.ok THEN [ok |-> FALSE, err |-> r.err, fs |-> f]
  ELSE IF Exists(f, r.loc) THEN [ok |-> FALSE, err |-> "EEXIST", fs |-> f]
  ELSE IF ~(Exists(f, Dirname(r.loc)) /\ KindAt(f, Dirname(r.loc)) = "dir")
       THEN [ok |-> FALSE, err |-> "ENOENT", fs |-> f]
  ELSE [ok |-> TRUE, at |-> r.loc, fs |-> Put(f, r.loc, LinkNode(target))]

----------------------------------------------------------------------------
(* Item records and their JSON form.  A record is a function from the keys *)
(* it carries to their values.  JSON.stringify writes, for every key the   *)
(* record carries, the key, the length of the value and the value;         *)
(* JSON.parse reads it back and throws a SyntaxError on anything else.     *)


KeyTable ==
  <<"k", "p", "o", "m", "sm", "t", "ce", "c",
    "kind", "path", "oldPath", "mode", "submodule", "symlinkTarget", "contentBase64">>

AtomKeys == {"k", "kind", "m", "mode", "ce"}
PathKeys == {"p", "path", "o", "oldPath", "t", "symlinkTarget"}
FlagKeys == {"sm", "submodule"}
TextKeys == {"c", "contentBase64"}

AtomTable ==
  <<"/", "\\", "..", ".", "a", "b", "d", "x", "o", "old", "new", "l", ".git",
    "A", "M", "D", "R", "C", "100644", "100755", "120000", "160000", "br", "gz">>

CodeOf(table, v) == CHOOSE i \in DOMAIN table : table[i] = v

EmptyRecord == [key \in {} |-> 0]

Has(item, key) == key \in DOMAIN item

JsonValue(key, v) ==
  IF key \in AtomKeys THEN <<CodeOf(AtomTable, v)>>
  ELSE IF key \in PathKeys THEN [i \in DOMAIN v |-> CodeOf(AtomTable, v[i])]
  ELSE IF key \in FlagKeys THEN <<v>>
  ELSE v

JsonStringify(record) ==
  Flatten([n \in DOMAIN KeyTable |->
             IF Has(record, KeyTable[n])
             THEN LET enc == JsonValue(KeyTable[n], record[KeyTable[n]]) IN <<n, Len(enc)>> \o enc
             ELSE <<>>])

JsonValueOk(key, enc) ==
  IF key \in AtomKeys THEN Len(enc) = 1 /\ enc[1] \in DOMAIN AtomTable
  ELSE IF key \in PathKeys THEN \A i \in DOMAIN enc : enc[i] \in DOMAIN AtomTable
  ELSE IF key \in FlagKeys THEN Len(enc) = 1
  ELSE TRUE

JsonValueOf(key, enc) ==
  IF key \in AtomKeys THEN AtomTable[enc[1]]
  ELSE IF key \in PathKeys THEN [i \in DOMAIN enc |-> AtomTable[enc[i]]]
  ELSE IF key \in FlagKeys THEN enc[1]
  ELSE enc

RECURSIVE JsonFields(_, _, _)
JsonFields(bytes, pos, acc) ==
  IF pos > Len(bytes) THEN [ok |-> TRUE, value |-> acc]
  ELSE IF pos + 1 > Len(bytes) \/ bytes[pos] \notin DOMAIN KeyTable
          \/ pos + 1 + bytes[pos + 1] > Len(bytes)
       THEN Fail("SyntaxError")
  ELSE LET key == KeyTable[bytes[pos]]
           enc == SubSeq(bytes, pos + 2, pos + 1 + bytes[pos + 1])
       IN IF Has(acc, key) \/ ~JsonValueOk(key, enc) THEN Fail("SyntaxError")
          ELSE JsonFields(bytes, pos + 2 + Len(enc), (key :> JsonValueOf(key, enc)) @@ acc)

JsonParse(bytes) == JsonFields(bytes, 1, EmptyRecord)

\* packItem(record): JSON, brotli, base64
packItem(record) == B64Encode(brotliCompress(JsonStringify(record)))

\* decodePayload(value, encoding)
decodePayload(value, encoding) ==
  LET buf == B64Decode(value)
      json == IF encoding = <<98, 114>> THEN brotliDecompress(buf) ELSE gunzip(buf)
  IN IF ~json.ok THEN json ELSE JsonParse(json.value)

\* decodeContent(item)
decodeContent(item) ==
  LET encoded == B64Decode(item.c)
      ce == IF Has(item, "ce") THEN item.ce ELSE NoAtom
  IN IF ce = "br" THEN brotliDecompress(encoded)
     ELSE IF ce = "gz" THEN gunzip(encoded)
     ELSE [ok |-> TRUE, value |-> encoded]

\* the legacy all-JSON artifact: "{", then the backup object (version, the
\* data array when it has one: per item its length and its JSON)
JsonShift == 100

LegacyBody(backup) ==
  <<backup.version, IF backup.hasData THEN 1 ELSE 0>>
  \o Flatten([i \in DOMAIN backup.data |->
                LET j == JsonStringify(backup.data[i]) IN <<Len(j)>> \o j])

LegacyText(backup) == <<Brace>> \o [i \in DOMAIN LegacyBody(backup) |-> LegacyBody(backup)[i] + JsonShift]

RECURSIVE LegacyItems(_, _)
LegacyItems(bytes, pos) ==
  IF pos > Len(bytes) THEN [ok |-> TRUE, value |-> <<>>]
  ELSE IF pos + bytes[pos] > Len(bytes) THEN Fail("SyntaxError")
  ELSE LET item == JsonParse(SubSeq(bytes, pos + 1, pos + bytes[pos]))
           rest == LegacyItems(bytes, pos + 1 + bytes[pos])
       IN IF ~item.ok THEN item
          ELSE IF ~rest.ok THEN rest
          ELSE [ok |-> TRUE, value |-> <<item.value>> \o rest.value]

\* JSON.parse(raw) for an artifact that starts with "{"
JsonParseBackup(raw) ==
  LET body == [i \in 1..(Len(raw) - 1) |-> raw[i + 1] - JsonShift] IN
  IF Len(body) < 2 \/ \E i \in DOMAIN body : body[i] < 0 THEN Fail("SyntaxError")
  ELSE LET items == LegacyItems(body, 3) IN
       IF ~items.ok THEN items
       ELSE [ok |-> TRUE,
             value |-> [layout |-> "json", version |-> body[1], hasData |-> body[2] = 1,
                        payloadEncoding |-> <<>>, data |-> items.value]]

----------------------------------------------------------------------------
(* Restore: src/restore.js                                                 *)

Missing == <<-4>>

\* item.a ?? item.b
PathOf(item, a, b) == IF Has(item, a) THEN item[a] ELSE IF Has(item, b) THEN item[b] ELSE NoPath
AtomOf(item, a, b) == IF Has(item, a) THEN item[a] ELSE IF Has(item, b) THEN item[b] ELSE NoAtom
TextOf(item, a, b) == IF Has(item, a) THEN item[a] ELSE IF Has(item, b) THEN item[b] ELSE NoText

\* the catch around parseBackupText: which error the failure becomes
LoadTextResult(r, password) ==
  IF r.ok
  THEN [ok |-> TRUE,
        value |-> [layout |-> "binary", version |-> r.value.version, hasData |-> TRUE,
                   payloadEncoding |-> r.value.payloadEncoding, data |-> r.value.data]]
  ELSE IF r.err = "PasswordRequired" THEN Fail("Encrypted")
  ELSE IF Falsy(password) THEN Fail("Encrypted")
  ELSE Fail("DecryptFailed")

\* the checks without the one on the version
LoadChecks_NoVersion(parsed) ==
  IF ~parsed.ok THEN parsed
  ELSE IF ~parsed.value.hasData THEN Fail("MissingData")
  ELSE parsed

\* the checks on the parsed backup: the data array, the version
LoadChecks(parsed) ==
  IF ~parsed.ok THEN parsed
  ELSE IF ~parsed.value.hasData THEN Fail("MissingData")
  ELSE IF parsed.value.version # 1 /\ parsed.value.version # 2 THEN Fail("VersionError")
  ELSE parsed

\* raw.startsWith("{") ? JSON.parse(raw) : parseBackupText(raw, password)
LoadParse(raw, password) ==
  IF StartsWith(raw, <<Brace>>) THEN JsonParseBackup(raw)
  ELSE LoadTextResult(parseBackupText(raw, password), password)

\* loadBackup(inputPath, options): the backup, or the error it throws
loadBackup(file, password) ==
  IF file = Missing THEN Fail("ENOENT")
  ELSE LoadChecks(LoadParse(Trim(file), password))

\* backup.data.map((value) => decodePayload(value, backup.payloadEncoding || "br"))
RECURSIVE DecodeAll(_, _)
DecodeAll(data, encoding) ==
  IF data = <<>> THEN [ok |-> TRUE, value |-> <<>>]
  ELSE LET item == decodePayload(Head(data), encoding) IN
       IF ~item.ok THEN item
       ELSE LET rest == DecodeAll(Tail(data), encoding) IN
            IF ~rest.ok THEN rest ELSE [ok |-> TRUE, value |-> <<item.value>> \o rest.value]

\* the items runRestore iterates over.  A version-2 backup decodes its blobs
\* (a JSON-layout one holds objects there, which Buffer.from rejects); any
\* other backup is iterated as it is, and a blob string has none of the
\* fields of an item.
restoreItems(backup) ==
  IF backup.version = 2
  THEN IF backup.layout = "json"
       THEN (IF backup.data = <<>> THEN [ok |-> TRUE, value |-> <<>>] ELSE Fail("TypeError"))
       ELSE DecodeAll(backup.data, IF Falsy(backup.payloadEncoding) THEN <<98, 114>> ELSE backup.payloadEncoding)
  ELSE IF backup.layout = "json" THEN [ok |-> TRUE, value |-> backup.data]
  ELSE [ok |-> TRUE, value |-> [i \in DOMAIN backup.data |-> EmptyRecord]]

LogOf(op, locs, n) == [i \in DOMAIN locs |-> [op |-> op, loc |-> locs[i], item |-> n]]

Outcome(f, err, dRestored, dRemoved, dSkipped, log) ==
  [fs |-> f, err |-> err, restored |-> dRestored, removed |-> dRemoved, skipped |-> dSkipped, log |-> log]

\* writeSymlink(fileAbsPath, target), then restored += 1
RestoreSymlink(f, abs, target, n, log) ==
  LET rm == removeIfExists(f, abs)
      dir == ensureParentDir(rm.fs, abs)
      log1 == log \o LogOf("rm", rm.removed, n) \o LogOf("mkdir", dir.made, n)
  IN IF rm.threw THEN Outcome(rm.fs, "RmError", 0, 0, 0, log)
     ELSE IF ~dir.ok THEN Outcome(dir.fs, dir.err, 0, 0, 0, log1)
     ELSE LET ln == symlinkSync(dir.fs, target, abs) IN
          IF ~ln.ok THEN Outcome(ln.fs, ln.err, 0, 0, 0, log1)
          ELSE Outcome(ln.fs, "", 1, 0, 0, log1 \o LogOf("symlink", <<ln.at>>, n))

\* ensureParentDir, writeFileSync, tryChmod, then restored += 1
RestoreFile(f, abs, content, mode, n, log) ==
  LET dir == ensureParentDir(f, abs)
      log1 == log \o LogOf("mkdir", dir.made, n)
  IN IF ~dir.ok THEN Outcome(dir.fs, dir.err, 0, 0, 0, log1)
     ELSE LET w == writeFileSync(dir.fs, abs, content) IN
          IF ~w.ok THEN Outcome(w.fs, w.err, 0, 0, 0, log1)
          ELSE Outcome(tryChmod(w.fs, abs, mode), "", 1, 0, 0,
                       log1 \o LogOf("write", <<w.at>>, n))

\* the part of one loop iteration after the Delete and Rename handling
RestoreContent(f, item, abs, n, log) ==
  IF (Has(item, "sm") /\ item.sm # 0) \/ (Has(item, "submodule") /\ item.submodule # 0)
  THEN Outcome(f, "", 0, 0, 1, log)
  ELSE LET mode == AtomOf(item, "m", "mode") IN
       IF mode = "120000"
       THEN LET target == PathOf(item, "t", "symlinkTarget") IN
            IF target = NoPath THEN Outcome(f, "MissingTarget", 0, 0, 0, log)
            ELSE RestoreSymlink(f, abs, target, n, log)
       ELSE LET contentBase64 == TextOf(item, "c", "contentBase64") IN
            IF contentBase64 = NoText THEN Outcome(f, "MissingContent", 0, 0, 0, log)
            ELSE LET content == IF Has(item, "c") /\ item.c # <<>> THEN decodeContent(item)
                                ELSE [ok |-> TRUE, value |-> B64Decode(contentBase64)]
                 IN IF ~content.ok THEN Outcome(f, content.err, 0, 0, 0, log)
                    ELSE RestoreFile(f, abs, content.value, mode, n, log)

\* one iteration of the loop of runRestore over item number n
RestoreOne(f, item, n) ==
  LET rel == assertSafeRepoRelativePath(PathOf(item, "p", "path")) IN
  IF ~rel.ok THEN Outcome(f, rel.err, 0, 0, 0, <<>>)
  ELSE LET abs == pathResolve(RepoRoot, rel.value)
           kind == AtomOf(item, "k", "kind")
       IN IF kind = "D"
          THEN LET rm == removeIfExists(f, abs) IN
               IF rm.threw THEN Outcome(rm.fs, "RmError", 0, 0, 0, <<>>)
               ELSE Outcome(rm.fs, "", 0, 1, 0, LogOf("rm", rm.removed, n))
          ELSE LET oldPath == PathOf(item, "o", "oldPath") IN
               IF kind = "R" /\ oldPath # NoPath /\ oldPath # <<>>
               THEN LET oldRel == assertSafeRepoRelativePath(oldPath) IN
                    IF ~oldRel.ok THEN Outcome(f, oldRel.err, 0, 0, 0, <<>>)
                    ELSE LET rm == removeIfExists(f, pathResolve(RepoRoot, oldRel.value)) IN
                         IF rm.threw THEN Outcome(rm.fs, "RmError", 0, 0, 0, <<>>)
                         ELSE RestoreContent(rm.fs, item, abs, n, LogOf("rm", rm.removed, n))
               ELSE RestoreContent(f, item, abs, n, <<>>)

----------------------------------------------------------------------------
(* Values a run starts from.                                               *)

MaxBlobs == 2

RECURSIVE SeqsUpTo(_, _)
SeqsUpTo(S, n) ==
  IF n = 0 THEN {<<>>}
  ELSE LET shorter == SeqsUpTo(S, n - 1) IN
       shorter \cup {Append(q, x) : q \in {r \in shorter : Len(r) = n - 1}, x \in S}

\* item blobs as Buffer.toString("base64") leaves them
BlobPool == {B64Encode(<<7>>), B64Encode(<<1, 2, 255>>), B64Encode(<<>>)}

SourcePool ==
  { [mode |-> Undef, root |-> Undef, excludes |-> UndefList],
    [mode |-> <<102, 115>>, root |-> <<47, 114>>, excludes |-> UndefList],
    [mode |-> Undef, root |-> <<47, 233>>, excludes |-> <<>>],
    [mode |-> <<102, 115>>, root |-> Undef, excludes |-> <<<<233>>>>],
    [mode |-> <<115>>, root |-> <<47, 114>>, excludes |-> <<<<97, 42>>, <<>>>>] }

BackupPool ==
  [version : {1, 2},
   createdAt : {Undef, <<233, 97>>},
   repoRoot : {<<47, 114>>},
   head : {Null, <<97, 98>>},
   payloadEncoding : {Undef, <<98, 114>>},
   source : SourcePool,
   data : SeqsUpTo(BlobPool, MaxBlobs)]

CodecIdle ==
  /\ cIn = NoValue /\ cBuf = <<>> /\ cOut = NoValue /\ cPc = "idle" /\ cCut = -1

TextIdle ==
  /\ tIn = NoValue /\ tPw = Null /\ tPwUsed = Null /\ tText = <<>> /\ tOut = NoValue /\ tPc = "idle" /\ tFlip = -1

RestoreIdle ==
  /\ fs = <<>> /\ rFile = NoValue /\ rPw = Null /\ rBackup = NoValue /\ rItems = <<>>
  /\ rIdx = 0 /\ restored = 0 /\ removed = 0 /\ skipped = 0
  /\ rPc = "idle" /\ rErr = "" /\ rLog = <<>>

CollectIdle ==
  /\ srcTree = <<>> /\ srcExcl = <<>> /\ collected = <<>>
  /\ giEntries = <<>> /\ giConc = NoValue /\ giCalls = <<>> /\ giPc = "idle"
  /\ pool = NoPool /\ workers = <<>>

----------------------------------------------------------------------------
(* The envelope codec on its own: pack, optionally cut the buffer short,   *)
(* unpack.                                                                 *)

CodecInit ==
  /\ cIn \in BackupPool
  /\ cBuf = <<>> /\ cOut = NoValue /\ cPc = "input" /\ cCut = -1
  /\ TextIdle /\ RestoreIdle /\ CollectIdle

CodecPack ==
  /\ cPc = "input"
  /\ LET r == packBackupBinary(cIn) IN
     IF r.ok THEN cBuf' = r.value /\ cPc' = "packed" /\ cOut' = cOut
     ELSE cBuf' = cBuf /\ cPc' = "failed" /\ cOut' = r
  /\ UNCHANGED <<cIn, cCut, textVars, restoreVars, collectVars>>

\* a strict prefix of the packed envelope
CodecTruncate ==
  /\ cPc = "packed" /\ cCut = -1
  /\ \E n \in 0..(Len(cBuf) - 1) :
       /\ cBuf' = SubSeq(cBuf, 1, n)
       /\ cCut' = n
  /\ UNCHANGED <<cIn, cOut, cPc, textVars, restoreVars, collectVars>>

CodecUnpack ==
  /\ cPc = "packed"
  /\ cOut' = unpackBackupBinary(cBuf)
  /\ cPc' = "unpacked"
  /\ UNCHANGED <<cIn, cBuf, cCut, textVars, restoreVars, collectVars>>

CodecNext == CodecPack \/ CodecTruncate \/ CodecUnpack

SpecCodec == CodecInit /\ [][CodecNext]_vars

\* "absent optional strings come back as empty": null, undefined and ""
\* are one value
SameText(a, b) == StrOr(a) = StrOr(b)

SameBackup(b, out) ==
  /\ out.version = b.version
  /\ SameText(out.createdAt, b.createdAt)
  /\ SameText(out.repoRoot, b.repoRoot)
  /\ SameText(out.head, b.head)
  /\ SameText(out.payloadEncoding, b.payloadEncoding)
  /\ SameText(out.source.mode, SourceField(b, "mode"))
  /\ SameText(out.source.root, SourceField(b, "root"))
  /\ (IF IsArray(out.source.excludes) THEN out.source.excludes ELSE <<>>) = SourceExcludes(b)
  /\ out.data = b.data

\* C1: unpacking the packed envelope of a Backup with at least one item
\* gives back every field (version, createdAt, source root, head,
\* payloadEncoding, source mode/root/excludes) and the item blobs unchanged
\* and in order; absent optional strings come back as empty.
C1_RoundTrip ==
  (cPc = "unpacked" /\ cCut = -1 /\ Len(cIn.data) >= 1) =>
    (cOut.ok /\ SameBackup(cIn, cOut.value))

C1_Witness ==
  /\ cPc = "unpacked" /\ cCut = -1 /\ Len(cIn.data) = 2
  /\ cIn.createdAt = <<233, 97>> /\ cIn.head = Null
  /\ cIn.source.mode = Undef /\ cIn.source.excludes = <<>> /\ cOut.ok /\ cOut.value.data = cIn.data

\* C6: unpacking a strict prefix of a packed envelope raises an error.
C6_TruncatedRejected ==
  (cPc = "unpacked" /\ cCut >= 0) => ~cOut.ok

----------------------------------------------------------------------------
(* The text codec on its own: encode with or without a password, alter one *)
(* byte of an encrypted artifact, parse.                                   *)

PwPool == {<<104, 50>>, <<119>>}
SaltPool == {[i \in 1..SaltLen |-> 17], [i \in 1..SaltLen |-> IF i = 16 THEN 3 ELSE 200]}
IvPool == {[i \in 1..IvLen |-> 5], [i \in 1..IvLen |-> i]}
FlipDeltas == {1, 128}

\* a Backup with every optional string absent and one blob of 235 bytes:
\* its packed envelope is 256 bytes long
BareBackup ==
  [version |-> 2, createdAt |-> Undef, repoRoot |-> <<>>, head |-> Null,
   payloadEncoding |-> Undef,
   source |-> [mode |-> Undef, root |-> Undef, excludes |-> UndefList],
   data |-> <<B64Encode([i \in 1..235 |-> i])>>]

TextBackupPool ==
  {b \in BackupPool :
     /\ b.version = 2 /\ b.payloadEncoding = <<98, 114>>
     /\ b.source.excludes \in {UndefList, <<<<233>>>>}
     /\ b.data \in {<<B64Encode(<<7>>)>>, <<B64Encode(<<1, 2, 255>>), B64Encode(<<7>>)>>}}
  \cup {BareBackup}

TextInit ==
  /\ tIn \in TextBackupPool
  /\ tPw \in {Null} \cup PwPool
  /\ tPwUsed = Null /\ tText = <<>> /\ tOut = NoValue /\ tPc = "input" /\ tFlip = -1
  /\ CodecIdle /\ RestoreIdle /\ CollectIdle

\* writeBackupFile: password ? encodeEncryptedToText : encodePlainToText
TextEncodePlain ==
  /\ tPc = "input" /\ Falsy(tPw)
  /\ tText' = encodePlainToText(tIn).value
  /\ tPc' = "encoded"
  /\ UNCHANGED <<tIn, tPw, tPwUsed, tOut, tFlip, codecVars, restoreVars, collectVars>>

TextEncodeEncrypted ==
  /\ tPc = "input" /\ ~Falsy(tPw)
  /\ \E salt \in SaltPool, iv \in IvPool :
       tText' = encodeEncryptedToText(tIn, tPw, salt, iv).value
  /\ tPc' = "encoded"
  /\ UNCHANGED <<tIn, tPw, tPwUsed, tOut, tFlip, codecVars, restoreVars, collectVars>>

\* one byte of the decoded artifact replaced by a different value
TextAlterByte ==
  /\ tPc = "encoded" /\ ~Falsy(tPw) /\ tFlip = -1
  /\ LET raw == B64Decode(tText) IN
     \E pos \in 0..(Len(raw) - 1), d \in FlipDeltas :
       /\ tText' = B64Encode([raw EXCEPT ![pos + 1] = (raw[pos + 1] + d) % 256])
       /\ tFlip' = pos
  /\ UNCHANGED <<tIn, tPw, tPwUsed, tOut, tPc, codecVars, restoreVars, collectVars>>

\* a plain artifact handed over without its "SSP1:" tag
TextDropTag ==
  /\ tPc = "encoded" /\ StartsWith(tText, PlainTag)
  /\ tText' = SubSeq(tText, Len(PlainTag) + 1, Len(tText))
  /\ UNCHANGED <<tIn, tPw, tPwUsed, tOut, tPc, tFlip, codecVars, restoreVars, collectVars>>

TextParse ==
  /\ tPc = "encoded"
  /\ \E pw \in {Null} \cup PwPool :
       /\ tPwUsed' = pw
       /\ tOut' = parseBackupText(tText, pw)
  /\ tPc' = "parsed"
  /\ UNCHANGED <<tIn, tPw, tText, tFlip, codecVars, restoreVars, collectVars>>

TextNext == TextEncodePlain \/ TextEncodeEncrypted \/ TextAlterByte \/ TextDropTag \/ TextParse

SpecText == TextInit /\ [][TextNext]_vars

\* C2: decoding the text produced by encoding a Backup, with the password
\* it was encoded with (or none), yields the Backup.
C2_TextRoundTrip ==
  (tPc = "parsed" /\ tFlip = -1 /\ tPwUsed = tPw) =>
    (tOut.ok /\ SameBackup(tIn, tOut.value))

C2_WitnessEncrypted ==
  /\ tPc = "parsed" /\ tFlip = -1 /\ tPwUsed = tPw /\ tPw = <<104, 50>>
  /\ isEncryptedText(tText) /\ tOut.ok /\ Len(tOut.value.data) = 2

\* C3: with one byte of the ciphertext region altered, decoding with the
\* correct password fails with the authentication error.
C3_TamperDetected ==
  (tPc = "parsed" /\ tFlip >= HEADER_LEN /\ tPwUsed = tPw) =>
    (~tOut.ok /\ tOut.err = "AuthError")

C3_Witness ==
  /\ tPc = "parsed" /\ tFlip >= HEADER_LEN /\ tPwUsed = tPw
  /\ ~tOut.ok /\ tOut.err = "AuthError"

C13_DecodePathOrder ==
  tPc = "parsed" =>
    /\ Falsy(tPw) => (tOut.ok /\ SameBackup(tIn, tOut.value))
    /\ (~Falsy(tPw) /\ tFlip \notin 0..3 /\ Falsy(tPwUsed)) =>
         (~tOut.ok /\ tOut.err = "PasswordRequired")
    /\ (~Falsy(tPw) /\ tFlip \notin 0..3 /\ ~Falsy(tPwUsed)) =>
         IF tFlip = -1 /\ tPwUsed = tPw THEN tOut.ok /\ SameBackup(tIn, tOut.value)
         ELSE /\ tOut.ok => tFlip = 5
              /\ ~tOut.ok => tOut.err \notin {"PasswordRequired", "ZlibError"}
    /\ (~Falsy(tPw) /\ tFlip \in 0..3) => (~tOut.ok /\ tOut.err = "ZlibError")

\* a plain artifact without its tag, parsed with a password
C13_Witness ==
  /\ tPc = "parsed" /\ Falsy(tPw) /\ tPwUsed = <<119>>
  /\ ~StartsWith(tText, PlainTag) /\ ~isEncryptedText(tText)
  /\ tOut.ok /\ Len(tOut.value.data) = 2

----------------------------------------------------------------------------
(* Restore runs: an artifact file, a password option, a target root.       *)

MaxItems == 2

\* the records collection writes: { k, p, o?, m?, sm?, t?, ce?, c? }
DeleteRecord(p) == ("k" :> "D") @@ ("p" :> p)
FileRecord(kind, p, mode, bytes) ==
  ("k" :> kind) @@ ("p" :> p) @@ ("m" :> mode) @@ ("ce" :> "br") @@ ("c" :> B64Encode(brotliCompress(bytes)))
RenameRecord(kind, old, p, bytes) == ("o" :> old) @@ FileRecord(kind, p, "100644", bytes)
LinkRecord(p, target) == ("k" :> "A") @@ ("p" :> p) @@ ("m" :> "120000") @@ ("t" :> target)
SubmoduleRecord(p) == ("k" :> "A") @@ ("p" :> p) @@ ("m" :> "160000") @@ ("sm" :> 1)

CoreItems ==
  { FileRecord("A", <<"a">>, "100644", <<7>>),
    FileRecord("M", <<"d", "/", "a">>, "100755", <<1, 2>>),
    DeleteRecord(<<"a">>),
    DeleteRecord(<<"b">>),
    DeleteRecord(<<"d">>),
    RenameRecord("R", <<"old">>, <<"new">>, <<7>>),
    LinkRecord(<<"l">>, <<"a">>),
    SubmoduleRecord(<<"b">>) }

EdgeItems ==
  { DeleteRecord(<<"..", "/", "x">>),
    DeleteRecord(<<"/", "x">>),
    DeleteRecord(<<"\\", "x">>),
    FileRecord("A", <<"/", "x">>, "100644", <<7>>),
    FileRecord("A", <<"a", "/", "..", "/", "..", "/", "x">>, "100644", <<7>>),
    FileRecord("A", <<"..", "\\", "x">>, "100644", <<7>>),
    FileRecord("A", <<"\\", "x">>, "100644", <<7>>),
    FileRecord("A", <<"a", "/", "..", "/", "b">>, "100644", <<7>>),
    RenameRecord("R", <<"..", "/", "x">>, <<"new">>, <<7>>),
    RenameRecord("C", <<"old">>, <<"new">>, <<7>>),
    LinkRecord(<<"..", "/", "l">>, <<"a">>),
    ("o" :> <<"old">>) @@ ("k" :> "R") @@ SubmoduleRecord(<<"new">>),
    ("k" :> "A") @@ ("m" :> "100644") @@ ("c" :> B64Encode(<<7>>)),
    ("k" :> "A") @@ ("p" :> <<"a">>) @@ ("m" :> "100644"),
    ("k" :> "A") @@ ("p" :> <<"l">>) @@ ("m" :> "120000"),
    ("k" :> "R") @@ ("o" :> <<"a">>) @@ ("p" :> <<"new">>) @@ ("m" :> "100644"),
    ("kind" :> "A") @@ ("path" :> <<"a">>) @@ ("mode" :> "100755") @@ ("contentBase64" :> B64Encode(<<7>>)) }

\* a symlink that points out of the root, then an item written at it or
\* through it
LinkedLists ==
  { <<LinkRecord(<<"l">>, <<"..", "/", "x">>), FileRecord("A", <<"l">>, "100644", <<7>>)>>,
    <<LinkRecord(<<"l">>, <<"..">>), FileRecord("A", <<"l", "/", "b">>, "100644", <<7>>)>>,
    <<LinkRecord(<<"l">>, <<"..">>), DeleteRecord(<<"l", "/", "x">>)>> }

ItemLists ==
  SeqsUpTo(CoreItems, MaxItems)
    \cup {<<e>> : e \in EdgeItems}
    \cup {<<c, e>> : c \in CoreItems, e \in EdgeItems}
    \cup LinkedLists

\* buildBackup: the Backup value around collected items
buildBackup(items, mode) ==
  [version |-> VERSION,
   createdAt |-> <<50, 48>>,
   repoRoot |-> <<47, 114>>,
   head |-> IF mode = <<102, 115>> THEN Null ELSE <<97, 98>>,
   payloadEncoding |-> <<98, 114>>,
   source |-> [mode |-> mode, root |-> <<47, 114>>, excludes |-> UndefList],
   data |-> [i \in DOMAIN items |-> packItem(items[i])]]

\* writeBackupFile: the text of the artifact file
writeBackupFile(backup, password, salt, iv) ==
  (IF Falsy(password) THEN encodePlainToText(backup).value
   ELSE encodeEncryptedToText(backup, password, salt, iv).value) \o <<Newline>>

FilePw == <<104, 50>>
FileSalt == [i \in 1..SaltLen |-> i]
FileIv == [i \in 1..IvLen |-> 2 * i]

PlainFiles == {writeBackupFile(buildBackup(items, <<115>>), Null, FileSalt, FileIv) : items \in ItemLists}
EncryptedFiles ==
  {writeBackupFile(buildBackup(items, <<115>>), FilePw, FileSalt, FileIv) :
     items \in {l \in ItemLists : Len(l) = 1}}
LegacyFiles == {LegacyText([version |-> 1, hasData |-> TRUE, data |-> items]) : items \in ItemLists}

SomeItems == <<FileRecord("A", <<"a">>, "100644", <<7>>), DeleteRecord(<<"old">>)>>

\* artifacts loadBackup refuses whatever the password
UnloadableFiles ==
  { Missing,
    LegacyText([version |-> 1, hasData |-> FALSE, data |-> <<>>]),
    LegacyText([version |-> 3, hasData |-> TRUE, data |-> SomeItems]),
    writeBackupFile([buildBackup(SomeItems, <<115>>) EXCEPT !.version = 3], Null, FileSalt, FileIv) }

\* artifacts that load and whose items cannot be decoded
UndecodableFiles ==
  { writeBackupFile([buildBackup(SomeItems, <<115>>) EXCEPT !.data = <<B64Encode(<<1, 2, 255>>)>>],
                    Null, FileSalt, FileIv),
    LegacyText([version |-> 2, hasData |-> TRUE, data |-> SomeItems]) }

\* malformed artifacts: an encrypted one cut inside its header, with a
\* wrong magic, with an unsupported header version; a plain one whose
\* payload is no compressed stream
EncryptedBytes == B64Decode(Trim(writeBackupFile(buildBackup(SomeItems, <<115>>), FilePw, FileSalt, FileIv)))
MalformedFiles ==
  { B64Encode(SubSeq(EncryptedBytes, 1, 21)) \o <<Newline>>,
    B64Encode([EncryptedBytes EXCEPT ![1] = 0]) \o <<Newline>>,
    B64Encode([EncryptedBytes EXCEPT ![5] = 9]) \o <<Newline>>,
    PlainTag \o B64Encode(<<1, 2, 3>>) \o <<Newline>> }

\* artifacts whose version is a supported one of the other layout
MismatchedFiles ==
  { writeBackupFile([buildBackup(SomeItems, <<115>>) EXCEPT !.version = 1], Null, FileSalt, FileIv),
    LegacyText([version |-> 2, hasData |-> TRUE, data |-> <<>>]) }

FilePool ==
  PlainFiles \cup EncryptedFiles \cup LegacyFiles \cup UnloadableFiles \cup UndecodableFiles
    \cup MalformedFiles \cup MismatchedFiles

\* the file "/x" lies outside the restore root "/r"
EmptyRoot == (<<"r">> :> DirNode) @@ (<<"x">> :> FileNode(<<9>>, "644"))
UsedRoot ==
  (<<"r">> :> DirNode) @@ (<<"x">> :> FileNode(<<9>>, "644"))
    @@ (<<"r", "a">> :> FileNode(<<3>>, "644")) @@ (<<"r", "old">> :> FileNode(<<4>>, "644"))
    @@ (<<"r", "d">> :> DirNode) @@ (<<"r", "d", "a">> :> FileNode(<<5>>, "644"))
FsPool == {EmptyRoot, UsedRoot}

Inside(loc) == Len(loc) >= Len(RepoRoot) /\ SubSeq(loc, 1, Len(RepoRoot)) = RepoRoot

RestoreInit ==
  /\ fs \in FsPool
  /\ rFile \in FilePool
  /\ rPw \in {Null} \cup PwPool
  /\ rBackup = NoValue /\ rItems = <<>> /\ rIdx = 0
  /\ restored = 0 /\ removed = 0 /\ skipped = 0
  /\ rPc = "start" /\ rErr = "" /\ rLog = <<>>
  /\ CodecIdle /\ TextIdle /\ CollectIdle

\* runRestore up to the loop: loadBackup, then the decoding of the items
RestoreLoad ==
  /\ rPc = "start"
  /\ \E backup \in {loadBackup(rFile, rPw)} :
       IF ~backup.ok
       THEN /\ rPc' = "failed" /\ rErr' = backup.err
            /\ UNCHANGED <<rBackup, rItems, rIdx>>
       ELSE \E items \in {restoreItems(backup.value)} :
              /\ rBackup' = backup.value
              /\ IF ~items.ok
                 THEN /\ rPc' = "failed" /\ rErr' = items.err
                      /\ UNCHANGED <<rItems, rIdx>>
                 ELSE /\ rPc' = "loop" /\ rItems' = items.value /\ rIdx' = 1
                      /\ UNCHANGED rErr
  /\ UNCHANGED <<fs, rFile, rPw, restored, removed, skipped, rLog, codecVars, textVars, collectVars>>

\* one iteration of the loop; an error ends the run where it is
RestoreItem ==
  /\ rPc = "loop" /\ rIdx <= Len(rItems)
  /\ \E o \in {RestoreOne(fs, rItems[rIdx], rIdx)} :
       /\ fs' = o.fs
       /\ rLog' = rLog \o o.log
       /\ restored' = restored + o.restored
       /\ removed' = removed + o.removed
       /\ skipped' = skipped + o.skipped
       /\ IF o.err # ""
          THEN rPc' = "failed" /\ rErr' = o.err /\ UNCHANGED rIdx
          ELSE rIdx' = rIdx + 1 /\ UNCHANGED <<rPc, rErr>>
  /\ UNCHANGED <<rFile, rPw, rBackup, rItems, codecVars, textVars, collectVars>>

\* the loop is over: the summary is printed
RestoreFinish ==
  /\ rPc = "loop" /\ rIdx > Len(rItems)
  /\ rPc' = "done"
  /\ UNCHANGED <<fs, rFile, rPw, rBackup, rItems, rIdx, restored, removed, skipped, rErr, rLog,
                 codecVars, textVars, collectVars>>

RestoreNext == RestoreLoad \/ RestoreItem \/ RestoreFinish

SpecRestore == RestoreInit /\ [][RestoreNext]_vars

PathSafetyErrors == {"PathSafety:empty", "PathSafety:absolute", "PathSafety:escape"}
LoadErrors == {"ENOENT", "Encrypted", "DecryptFailed", "MissingData", "VersionError"}

IsSubmodule(item) ==
  (Has(item, "sm") /\ item.sm # 0) \/ (Has(item, "submodule") /\ item.submodule # 0)

IsDelete(item) == AtomOf(item, "k", "kind") = "D"
IsRename(item) == AtomOf(item, "k", "kind") = "R" /\ PathOf(item, "o", "oldPath") \notin {NoPath, <<>>}

\* a path that is absolute, or whose normalized form is absolute or leaves
\* the root through ".."
UnsafePath(p) ==
  /\ p # NoPath /\ p # <<>>
  /\ \/ isAbsolute(p)
     \/ isAbsolute(posixNormalize(SlashOnly(p)))
     \/ posixNormalize(SlashOnly(p))[1] = ".."

UnsafeItem(item) ==
  \/ UnsafePath(PathOf(item, "p", "path"))
  \/ IsRename(item) /\ UnsafePath(PathOf(item, "o", "oldPath"))

\* C4: an item whose path (or, for a Rename, old path) is absolute or
\* escapes the root is never passed: the run stops at it with a path-safety
\* error and nothing in the filesystem is changed for it.
C4_UnsafePathRejected ==
  \A n \in DOMAIN rItems :
    UnsafeItem(rItems[n]) =>
      /\ rIdx <= n
      /\ (rPc = "failed" /\ rIdx = n) => rErr \in PathSafetyErrors
      /\ \A e \in DOMAIN rLog : rLog[e].item # n

\* C5: when the artifact cannot be loaded (missing file, wrong or absent
\* password for an encrypted artifact, no data array, unsupported version)
\* the run fails with a load error before any item and the tree is as it was.
C5_LoadFailureLeavesTree ==
  (rFile \in UnloadableFiles \/ (rFile \in EncryptedFiles /\ rPw # FilePw)) =>
    /\ rPc \in {"start", "failed"}
    /\ rPc = "failed" => rErr \in LoadErrors
    /\ fs \in FsPool /\ rLog = <<>> /\ rItems = <<>>
    /\ restored = 0 /\ removed = 0 /\ skipped = 0

C5_Witness ==
  /\ rPc = "failed" /\ rFile \in EncryptedFiles /\ rPw = <<119>> /\ rErr = "DecryptFailed"
  /\ fs = UsedRoot /\ rLog = <<>>

\* C9: a restore whose last item is a Rename ends with the old path absent,
\* the new path present, removed >= 1 and restored >= 1.
C9_RenameCounts ==
  (rPc = "done" /\ rItems # <<>> /\ IsRename(rItems[Len(rItems)])) =>
    /\ ~Exists(fs, pathResolve(RepoRoot, rItems[Len(rItems)].o))
    /\ Exists(fs, pathResolve(RepoRoot, rItems[Len(rItems)].p))
    /\ removed >= 1 /\ restored >= 1

\* what the restore of one Delete item is claimed to do: it does not raise,
\* the removed counter goes up by one, and a replay changes nothing more
DeleteStepOk ==
  /\ rPc' = "loop" /\ rIdx' = rIdx + 1
  /\ removed' = removed + 1
  /\ RestoreOne(fs', rItems[rIdx], rIdx).fs = fs'

\* C10 as stated: the restore of any Delete item never raises, counts one
\* removal and is idempotent.
C10_DeleteNeverRaises ==
  [][(rPc = "loop" /\ rIdx \in DOMAIN rItems /\ IsDelete(rItems[rIdx])) => DeleteStepOk]_vars

\* C10 amended: the restore of a Delete item whose path passes the
\* path-safety check never raises, whether or not the target exists, counts
\* exactly one removal, and a replay leaves the filesystem as it is.
C10_SafeDeleteNeverRaises ==
  [][(/\ rPc = "loop" /\ rIdx \in DOMAIN rItems /\ IsDelete(rItems[rIdx])
      /\ assertSafeRepoRelativePath(PathOf(rItems[rIdx], "p", "path")).ok) => DeleteStepOk]_vars

C10_Witness ==
  /\ rPc = "done" /\ rItems = <<DeleteRecord(<<"a">>), DeleteRecord(<<"a">>)>>
  /\ removed = 2 /\ Len(rLog) = 1 /\ rLog[1].loc = <<"r", "a">> /\ ~Exists(fs, <<"r", "a">>)

\* C14: a load that fails on a wrong password reports "decryption failed",
\* and a load that fails on a malformed artifact reports neither that nor
\* the missing-password error.
C14_ErrorsDistinct ==
  (rPc = "failed" /\ rItems = <<>>) =>
    /\ (rFile \in EncryptedFiles /\ ~Falsy(rPw) /\ rPw # FilePw) => rErr = "DecryptFailed"
    /\ rFile \in MalformedFiles => rErr \notin {"DecryptFailed", "Encrypted"}

\* a symlink item with no target, a regular item with no content
Malformed(item) ==
  /\ ~IsDelete(item) /\ ~IsSubmodule(item) /\ ~UnsafeItem(item)
  /\ assertSafeRepoRelativePath(PathOf(item, "p", "path")).ok
  /\ IF AtomOf(item, "m", "mode") = "120000"
     THEN PathOf(item, "t", "symlinkTarget") = NoPath
     ELSE TextOf(item, "c", "contentBase64") = NoText

\* C22: at a malformed item the run aborts with the error for the missing
\* field, the filesystem and the counters stay as the items before it left
\* them, and no later item is processed.
C22_MalformedAborts ==
  [][/\ (rPc = "loop" /\ rIdx \in DOMAIN rItems /\ Malformed(rItems[rIdx])) =>
          /\ rPc' = "failed" /\ rErr' \in {"MissingTarget", "MissingContent"}
          /\ rIdx' = rIdx /\ fs' = fs /\ rLog' = rLog
          /\ restored' = restored /\ removed' = removed /\ skipped' = skipped
     /\ rPc = "failed" => (rPc' = "failed" /\ rIdx' = rIdx /\ fs' = fs)]_vars

\* C27: every location restore writes, links or removes lies inside the
\* restore root as the filesystem resolves it, also when an earlier item of
\* the sequence created a symlink on the way to it.
C27_StaysInsideRoot ==
  \A e \in DOMAIN rLog : Inside(rLog[e].loc)

\* the version is the one of the layout the artifact arrived in
VersionFits(backup) ==
  \/ backup.layout = "binary" /\ backup.version = 2
  \/ backup.layout = "json" /\ backup.version = 1

\* C21: items are processed only when the version is the one of the layout
\* (2 for the binary envelope, 1 for the all-JSON layout); any other
\* version ends the run with a version error before any item is processed.
C21_VersionMatchesLayout ==
  \A parsed \in {IF rFile = Missing THEN Fail("ENOENT") ELSE LoadParse(Trim(rFile), rPw)} :
    (parsed.ok /\ parsed.value.hasData /\ ~VersionFits(parsed.value)) =>
      /\ rPc \in {"start", "failed"}
      /\ rPc = "failed" => rErr = "VersionError"
      /\ rItems = <<>> /\ rLog = <<>>

\* a Rename or Copy item that carries an old path
CarriesOldPath(item) ==
  AtomOf(item, "k", "kind") \in {"R", "C"} /\ PathOf(item, "o", "oldPath") \notin {NoPath, <<>>}

\* what the step of such an item is claimed to do: the old path is gone
\* after it, and its removal is logged before any entry the item writes
OldPathRemovedFirst ==
  /\ ~Exists(fs', pathResolve(RepoRoot, assertSafeRepoRelativePath(PathOf(rItems[rIdx], "o", "oldPath")).value))
  /\ \A a, b \in (Len(rLog) + 1)..Len(rLog') :
       (rLog'[a].op \in {"write", "mkdir", "symlink"} /\ rLog'[b].op = "rm"
          /\ rLog'[b].loc = pathResolve(RepoRoot,
                assertSafeRepoRelativePath(PathOf(rItems[rIdx], "o", "oldPath")).value)) => b < a

\* C15: the step of a Rename or Copy item with an old path (both paths
\* passing the path-safety check) removes the old path, whether or not it
\* exists, before it writes anything at the new path.
C15_OldPathRemovedFirst ==
  [][(/\ rPc = "loop" /\ rIdx \in DOMAIN rItems /\ CarriesOldPath(rItems[rIdx])
      /\ assertSafeRepoRelativePath(PathOf(rItems[rIdx], "p", "path")).ok
      /\ assertSafeRepoRelativePath(PathOf(rItems[rIdx], "o", "oldPath")).ok) => OldPathRemovedFirst]_vars

\* what skipping one item entirely is: the loop moves on, the filesystem is
\* as it was, skipped goes up by one, restored and removed stay
SkipStepOk ==
  /\ rPc' = "loop" /\ rIdx' = rIdx + 1
  /\ fs' = fs
  /\ skipped' = skipped + 1 /\ restored' = restored /\ removed' = removed

\* C11: the restore of a non-Delete item flagged as submodule (its paths
\* passing the path-safety check) creates, changes and removes nothing,
\* adds one to skipped and leaves restored and removed as they are.
C11_SubmoduleSkipped ==
  [][(/\ rPc = "loop" /\ rIdx \in DOMAIN rItems
      /\ ~IsDelete(rItems[rIdx]) /\ IsSubmodule(rItems[rIdx])
      /\ ~UnsafeItem(rItems[rIdx])
      /\ assertSafeRepoRelativePath(PathOf(rItems[rIdx], "p", "path")).ok) => SkipStepOk]_vars

----------------------------------------------------------------------------
(* Filesystem-mode collection: src/backup.js, src/config.js.  The source   *)
(* tree maps each location below the source root to its node.  A directory *)
(* entry's name is one string; NameTokens gives the tokens of its path     *)
(* string.                                                                 *)

\* the names a directory can hold, in the order readdir returns them
NameTable == <<".git", "a", "a\\b", "b", "d", "l", "out">>

NameTokens(name) == IF name = "a\\b" THEN <<"a", BackSep, "b">> ELSE <<name>>

\* fs.readdirSync(dir, { withFileTypes: true })
RECURSIVE readdirSync(_, _, _)
readdirSync(tree, dir, k) ==
  IF k > Len(NameTable) THEN <<>>
  ELSE (IF Append(dir, NameTable[k]) \in DOMAIN tree THEN <<NameTable[k]>> ELSE <<>>)
       \o readdirSync(tree, dir, k + 1)

\* normalizePattern(value)
normalizePattern(value) ==
  LET p == SlashOnly(value) IN
  IF Len(p) >= 2 /\ p[1] = "." /\ p[2] = Sep THEN SubSeq(p, 3, Len(p)) ELSE p

\* normalizeRelPath(value)
normalizeRelPath(value) ==
  LET p == posixNormalize(SlashOnly(value)) IN
  IF p = <<".">> THEN <<>>
  ELSE IF Len(p) >= 2 /\ p[1] = "." /\ p[2] = Sep THEN SubSeq(p, 3, Len(p)) ELSE p

\* globToRegExp(pattern).test(p): "**" is ".*", "*" is "[^/]*"
RECURSIVE GlobTest(_, _)
GlobTest(pattern, p) ==
  IF pattern = <<>> THEN p = <<>>
  ELSE IF Head(pattern) = "**"
       THEN GlobTest(Tail(pattern), p) \/ (p # <<>> /\ GlobTest(pattern, Tail(p)))
  ELSE IF Head(pattern) = "*"
       THEN GlobTest(Tail(pattern), p) \/ (p # <<>> /\ Head(p) # Sep /\ GlobTest(pattern, Tail(p)))
  ELSE p # <<>> /\ Head(p) = Head(pattern) /\ GlobTest(Tail(pattern), Tail(p))

\* a rule whose directory pattern matches the directory alone
ExcludeRule_DirOnly(pattern, p) ==
  IF pattern[Len(pattern)] = Sep THEN p = SubSeq(pattern, 1, Len(pattern) - 1)
  ELSE IF \E i \in DOMAIN pattern : pattern[i] \in {"*", "**"} THEN GlobTest(pattern, p)
  ELSE p = pattern

\* one rule of buildExcludeMatcher
ExcludeRule(pattern, p) ==
  IF pattern[Len(pattern)] = Sep
  THEN LET prefix == SubSeq(pattern, 1, Len(pattern) - 1) IN
       p = prefix \/ StartsWith(p, pattern)
  ELSE IF \E i \in DOMAIN pattern : pattern[i] \in {"*", "**"} THEN GlobTest(pattern, p)
  ELSE p = pattern

\* buildExcludeMatcher(excludes)(relPath)
excludeMatcher(excludes, relPath) ==
  \E i \in DOMAIN excludes :
    /\ normalizePattern(excludes[i]) # <<>>
    /\ ExcludeRule(normalizePattern(excludes[i]), normalizeRelPath(relPath))

\* where the output artifact lies under the source root
OutputLoc == <<"out">>

\* stat.mode.toString(8) of a regular file
ModeString(perm) == IF perm = "755" THEN "100755" ELSE "100644"

RECURSIVE walk(_, _, _, _, _)

\* the body of the loop of walk for entry `name` of directory dirLoc, whose
\* path relative to the root is relPath
WalkEntry(tree, excludes, dirLoc, name, relPath) ==
  IF name = ".git" THEN <<>>
  ELSE IF Append(dirLoc, name) = OutputLoc THEN <<>>
  ELSE IF excludes # <<>> /\ excludeMatcher(excludes, relPath) THEN <<>>
  ELSE IF tree[Append(dirLoc, name)].kind = "dir"
       THEN walk(tree, excludes, Append(dirLoc, name), relPath,
                 readdirSync(tree, Append(dirLoc, name), 1))
  ELSE IF tree[Append(dirLoc, name)].kind = "link"
       THEN <<LinkRecord(relPath, tree[Append(dirLoc, name)].target)>>
  ELSE <<FileRecord("A", relPath, ModeString(tree[Append(dirLoc, name)].perm),
                    tree[Append(dirLoc, name)].content)>>

\* walk(relDir) over the entries `names` of directory dirLoc
walk(tree, excludes, dirLoc, relDir, names) ==
  IF names = <<>> THEN <<>>
  ELSE WalkEntry(tree, excludes, dirLoc, Head(names),
                 IF relDir = <<>> THEN NameTokens(Head(names))
                 ELSE relDir \o <<Sep>> \o NameTokens(Head(names)))
       \o walk(tree, excludes, dirLoc, relDir, Tail(names))

\* collectFromFs(rootAbs, outputAbs, excludeMatcher, ...): the records, in
\* the order they are pushed
collectFromFs(tree, excludes) == walk(tree, excludes, <<>>, <<>>, readdirSync(tree, <<>>, 1))

\* source trees: every set of the entries below that holds the directory of
\* each entry it holds
TreeEntries ==
  { <<<<"a">>, FileNode(<<7>>, "644")>>,
    <<<<"b">>, FileNode(<<>>, "755")>>,
    <<<<"d">>, DirNode>>,
    <<<<"d", "a">>, FileNode(<<1, 2>>, "644")>>,
    <<<<"d", "l">>, LinkNode(<<"..", "/", "a">>)>>,
    <<<<"l">>, LinkNode(<<"a">>)>>,
    <<<<".git">>, DirNode>>,
    <<<<".git", "a">>, FileNode(<<3>>, "644")>>,
    <<<<"out">>, FileNode(<<4>>, "644")>>,
    <<<<"a\\b">>, FileNode(<<5>>, "644")>> }

TreeOf(entries) == [loc \in {e[1] : e \in entries} |-> (CHOOSE e \in entries : e[1] = loc)[2]]

TreePool ==
  {TreeOf(es) : es \in {es \in SUBSET TreeEntries :
                          \A e \in es : Len(e[1]) = 1 \/ \E d \in es : d[1] = Dirname(e[1]) /\ d[2] = DirNode}}

ExcludesPool ==
  {<<>>, <<<<"d", "/">>>>, <<<<"a">>, <<"*">>>>, <<<<".", "/", "d", "/", "*">>>>, <<<<"**", "a">>>>}

\* an entry that collection passes over: it or a directory above it is
\* named ".git", is the output artifact, or matches an exclude pattern
RECURSIVE RelPathOf(_)
RelPathOf(loc) ==
  IF loc = <<>> THEN <<>>
  ELSE IF Len(loc) = 1 THEN NameTokens(loc[1])
  ELSE RelPathOf(SubSeq(loc, 1, Len(loc) - 1)) \o <<Sep>> \o NameTokens(loc[Len(loc)])

PassedOver(loc, excludes) ==
  \E n \in 1..Len(loc) :
    \/ loc[n] = ".git"
    \/ SubSeq(loc, 1, n) = OutputLoc
    \/ excludeMatcher(excludes, RelPathOf(SubSeq(loc, 1, n)))

FsInit ==
  /\ srcTree \in TreePool
  /\ srcExcl \in ExcludesPool
  /\ collected = <<>>
  /\ fs = EmptyRoot
  /\ rFile = NoValue /\ rPw = Null /\ rBackup = NoValue /\ rItems = <<>> /\ rIdx = 0
  /\ restored = 0 /\ removed = 0 /\ skipped = 0
  /\ rPc = "collect" /\ rErr = "" /\ rLog = <<>>
  /\ giEntries = <<>> /\ giConc = NoValue /\ giCalls = <<>> /\ giPc = "idle"
  /\ pool = NoPool /\ workers = <<>>
  /\ CodecIdle /\ TextIdle

\* buildBackup in filesystem mode, then writeBackupFile
FsBackup ==
  /\ rPc = "collect"
  /\ \E records \in {collectFromFs(srcTree, srcExcl)} :
       /\ collected' = records
       /\ rFile' = writeBackupFile(buildBackup(records, <<102, 115>>), Null, FileSalt, FileIv)
  /\ rPc' = "start"
  /\ UNCHANGED <<srcTree, srcExcl, fs, rPw, rBackup, rItems, rIdx, restored, removed, skipped,
                 rErr, rLog, giEntries, giConc, giCalls, giPc, pool, workers, codecVars, textVars>>

FsNext == FsBackup \/ RestoreLoad \/ RestoreItem \/ RestoreFinish

SpecFs == FsInit /\ [][FsNext]_vars

\* the files and symlinks below a directory, by location relative to it
LeavesOf(f, root) ==
  {SubSeq(loc, Len(root) + 1, Len(loc)) :
     loc \in {l \in DOMAIN f : Len(l) > Len(root) /\ SubSeq(l, 1, Len(root)) = root /\ f[l].kind # "dir"}}

SameLeaf(a, b) == a.kind = b.kind /\ a.content = b.content /\ a.target = b.target

\* C8: a filesystem-mode backup restored into an empty directory yields
\* exactly the files and symlinks of the tree that collection does not pass
\* over, each with its content or its target string, and the restored count
\* is the number of items of the backup.
C8_FsRoundTrip ==
  rPc = "done" =>
    /\ LeavesOf(fs, RepoRoot) = {loc \in LeavesOf(srcTree, <<>>) : ~PassedOver(loc, srcExcl)}
    /\ \A loc \in LeavesOf(fs, RepoRoot) : SameLeaf(fs[RepoRoot \o loc], srcTree[loc])
    /\ restored = Len(collected)

----------------------------------------------------------------------------
(* Index-mode collection and the worker pool: src/backup.js.  A staged     *)
(* entry carries what git reports for it: its name-status fields, its      *)
(* index mode (NoAtom when ls-files has no line for it) and its blob.      *)

MaxEntries == 3

Max(a, b) == IF a > b THEN a ELSE b

StagedEntry(kind, path, oldPath, mode, content, target) ==
  [kind |-> kind, path |-> path, oldPath |-> oldPath, mode |-> mode, content |-> content, target |-> target]

EntryPool ==
  { StagedEntry("A", <<"a">>, NoPath, "100644", <<7>>, <<>>),
    StagedEntry("M", <<"b">>, NoPath, "100755", <<1, 2, 3>>, <<>>),
    StagedEntry("D", <<"d", "/", "a">>, NoPath, NoAtom, <<>>, <<>>),
    StagedEntry("R", <<"new">>, <<"old">>, "100644", <<9, 9>>, <<>>),
    StagedEntry("A", <<"l">>, NoPath, "120000", <<>>, <<"a">>),
    StagedEntry("A", <<"x">>, NoPath, "160000", <<>>, <<>>) }

\* what a collection run is called with: concurrency { enabled, threads,
\* fileCountThreshold }, the two size thresholds in bytes (bigFileMB and
\* totalSizeMB times 1024 * 1024), the mode ("index" or "fs") and whether a
\* progress callback is passed
RunConfig(enabled, threads, count, big, total) ==
  [enabled |-> enabled, threads |-> threads, fileCountThreshold |-> count, bigFileBytes |-> big,
   totalSizeBytes |-> total, mode |-> "index", progress |-> FALSE]

ConcPool ==
  { RunConfig(FALSE, 2, 0, 0, 0),
    RunConfig(TRUE, 2, 2, 9, 0),
    RunConfig(TRUE, 1, 9, 2, 0),
    RunConfig(TRUE, 2, 9, 9, 4),
    RunConfig(TRUE, 0, 9, 0, 0) }

\* `git show` of the entry (index mode) or the read of the file (filesystem
\* mode) throws
FetchFails(entry) == "fails" \in DOMAIN entry /\ entry.fails

\* whether the totals are taken: always in index mode; in filesystem mode
\* under onProgress || (enabled && (fileCountThreshold > 0 || totalSizeMB > 0))
Counted(conc) ==
  \/ conc.mode = "index"
  \/ conc.progress
  \/ (conc.enabled /\ (conc.fileCountThreshold > 0 \/ conc.totalSizeBytes > 0))

\* staged.filter(...): entries whose path and old path the matcher lets through
RECURSIVE Filtered(_, _)
Filtered(staged, excludes) ==
  IF staged = <<>> THEN <<>>
  ELSE (IF excludes # <<>>
           /\ (\/ excludeMatcher(excludes, Head(staged).path)
               \/ (Head(staged).oldPath # NoPath /\ excludeMatcher(excludes, Head(staged).oldPath)))
        THEN <<>> ELSE <<Head(staged)>>)
       \o Filtered(Tail(staged), excludes)

\* the bytes the totalBytes loop adds for an entry
SizeOf(entry) ==
  IF entry.kind = "D" \/ entry.mode = NoAtom \/ entry.mode = "160000" THEN 0
  ELSE IF entry.mode = "120000" THEN Len(entry.target)
  ELSE Len(entry.content)

RECURSIVE TotalBytes(_)
TotalBytes(filtered) == IF filtered = <<>> THEN 0 ELSE SizeOf(Head(filtered)) + TotalBytes(Tail(filtered))

usePoolByCount(conc, filtered) ==
  Counted(conc) /\ conc.enabled /\ Len(filtered) >= conc.fileCountThreshold

usePoolByTotal(conc, filtered) ==
  Counted(conc) /\ conc.enabled /\ conc.totalSizeBytes > 0 /\ TotalBytes(filtered) >= conc.totalSizeBytes

\* whether the compression of this content goes to the pool
Pooled(conc, filtered, content) ==
  conc.enabled /\ (usePoolByCount(conc, filtered) \/ usePoolByTotal(conc, filtered)
                   \/ Len(content) >= conc.bigFileBytes)

\* the record of an entry before its content: k, p, o, m, sm, t
BaseRecord(entry) ==
  ("k" :> entry.kind) @@ ("p" :> entry.path)
    @@ (IF entry.oldPath # NoPath /\ entry.oldPath # <<>> THEN "o" :> entry.oldPath ELSE EmptyRecord)
    @@ (IF entry.kind # "D" /\ entry.mode # NoAtom THEN "m" :> entry.mode ELSE EmptyRecord)
    @@ (IF entry.kind # "D" /\ entry.mode = "160000" THEN "sm" :> 1 ELSE EmptyRecord)
    @@ (IF entry.kind # "D" /\ entry.mode = "120000" THEN "t" :> entry.target ELSE EmptyRecord)

\* the symlink branch does not return: its record gets content as well
HasContent_SymlinkFallsThrough(entry) == entry.kind # "D" /\ entry.mode # "160000"

\* an entry whose record carries compressed content
HasContent(entry) == entry.kind # "D" /\ entry.mode \notin {"160000", "120000"}

\* record.ce = "br"; record.c = compressed.toString("base64")
WithContent(record, compressed) == ("ce" :> "br") @@ ("c" :> B64Encode(compressed)) @@ record

\* new WorkerPool(size, workerPath), every worker spawned and idle
newWorkerPool(size) ==
  [made |-> TRUE, size |-> Max(1, size), queue |-> <<>>, idle |-> [w \in 1..Max(1, size) |-> w],
   pending |-> {}, taskId |-> 0]

WorkerIdle == [st |-> "idle", id |-> 0, buffer |-> <<>>]

\* a task of the queue as kept in the pending map, with the worker its
\* message was posted to
Dispatch(task, w) == [id |-> task.id, buffer |-> task.buffer, call |-> task.call, worker |-> w]

\* runNext without this.idle.shift(): the worker stays on the idle list
runNext_KeepIdle(p, ws) ==
  IF p.idle = <<>> \/ p.queue = <<>> THEN [pool |-> p, workers |-> ws]
  ELSE [pool |-> [p EXCEPT !.queue = Tail(@), !.pending = @ \cup {Dispatch(Head(p.queue), Head(p.idle))}],
        workers |-> [ws EXCEPT ![Head(p.idle)] =
                       IF @.st = "dead" THEN @
                       ELSE [st |-> "posted", id |-> Head(p.queue).id, buffer |-> Head(p.queue).buffer]]]

\* runNext(): the pool and the worker threads after it (a message posted
\* to a worker that has exited is dropped)
runNext(p, ws) ==
  IF p.idle = <<>> \/ p.queue = <<>> THEN [pool |-> p, workers |-> ws]
  ELSE [pool |-> [p EXCEPT !.idle = Tail(@), !.queue = Tail(@),
                           !.pending = @ \cup {Dispatch(Head(p.queue), Head(p.idle))}],
        workers |-> [ws EXCEPT ![Head(p.idle)] =
                       IF @.st = "dead" THEN @
                       ELSE [st |-> "posted", id |-> Head(p.queue).id, buffer |-> Head(p.queue).buffer]]]

\* runTask({ buffer }) from callback `call`
runTask(p, ws, buffer, call) ==
  runNext([p EXCEPT !.taskId = @ + 1,
                    !.queue = Append(@, [id |-> p.taskId + 1, buffer |-> buffer, call |-> call])], ws)

\* the pending task a message is taken to answer: the oldest one
PendingGet_Oldest(pending, id) ==
  {t \in pending : \A u \in pending : t.id <= u.id}

\* this.pending.get(msg.id)
PendingGet(pending, id) == {t \in pending : t.id = id}

\* a callback of filtered.map (index mode) or a file of walk (filesystem
\* mode): where it stands, and whether its content went to the pool
NewCall == [pc |-> "new", record |-> EmptyRecord, reply |-> <<>>, result |-> <<>>, via |-> "", steps |-> <<>>]

\* what a callback has done in its own order: a call of onProgress, with
\* the index and the sizes passed to it, or the start of the compression
Event(status, index, raw, br) == [ev |-> status, index |-> index, raw |-> raw, br |-> br]
CompressStep == Event("compress", 0, 0, 0)

\* if (onProgress) onProgress(...)
Emit(conc, event) == IF conc.progress THEN <<event>> ELSE <<>>

\* the raw size passed to onProgress: 0 for a Delete and a submodule, the
\* length of the target for a symlink, content.length otherwise
RawOf(entry) ==
  IF HasContent(entry) THEN Len(entry.content)
  ELSE IF entry.kind # "D" /\ entry.mode = "120000" THEN Len(entry.target)
  ELSE 0

\* idx + 1 in index mode; in filesystem mode fileIndex after fileIndex += 1
EventIndex(conc, calls, i) ==
  IF conc.mode = "index" THEN i
  ELSE Cardinality({j \in DOMAIN calls : \E k \in DOMAIN calls[j].steps : calls[j].steps[k].ev = "processing"}) + 1

\* the steps of a callback from its "processing" event to the start of
\* its compression (index mode); walk compresses a file first
StepsBefore(conc, calls, i, entry) ==
  IF ~HasContent(entry) THEN Emit(conc, Event("processing", EventIndex(conc, calls, i), RawOf(entry), 0))
  ELSE IF conc.mode = "index"
  THEN Emit(conc, Event("processing", i, RawOf(entry), 0)) \o <<CompressStep>>
  ELSE <<CompressStep>>

\* the steps of a callback once it has its compressed bytes (br of them)
StepsAfter(conc, calls, i, entry, br) ==
  (IF HasContent(entry) /\ conc.mode = "fs"
   THEN Emit(conc, Event("processing", EventIndex(conc, calls, i), RawOf(entry), 0))
   ELSE <<>>)
  \o Emit(conc, Event("done", EventIndex(conc, calls, i), RawOf(entry), br))

\* in filesystem mode walk awaits each file before it reads the next one
InTurn == giConc.mode = "fs" => \A i \in DOMAIN giCalls : giCalls[i].pc \in {"new", "done"}

\* the main thread is free to take a worker's event: filtered.map has
\* returned, or walk is suspended in its await
\* (a rejected promise is reacted to before any further event), or the
\* collection has thrown and the event loop goes on
MainIdle ==
  \/ giPc = "failed"
  \/ /\ giPc = "map"
     /\ \A i \in DOMAIN giCalls : giCalls[i].pc # "rejected"
     /\ IF giConc.mode = "fs" THEN \E i \in DOMAIN giCalls : giCalls[i].pc = "waiting"
        ELSE \A i \in DOMAIN giCalls : giCalls[i].pc # "new"

GitInit ==
  /\ giEntries \in SeqsUpTo(EntryPool, MaxEntries)
  /\ srcExcl \in {<<>>, <<<<"b">>>>}
  /\ giConc \in ConcPool
  /\ giCalls = [i \in DOMAIN Filtered(giEntries, srcExcl) |-> NewCall]
  /\ giPc = "map"
  /\ pool = NoPool /\ workers = <<>>
  /\ srcTree = <<>> /\ collected = <<>>
  /\ CodecIdle /\ TextIdle /\ RestoreIdle

\* the first callback filtered.map has not started yet
NextCall == CHOOSE i \in DOMAIN giCalls : giCalls[i].pc = "new" /\ \A j \in 1..(i - 1) : giCalls[j].pc # "new"

Mapping == \E i \in DOMAIN giCalls : giCalls[i].pc = "new"

gitUnchanged == <<giEntries, giConc, srcExcl, srcTree, collected, codecVars, textVars, restoreVars>>

\* a callback of filtered.map that returns without the pool: a Delete, a
\* submodule, a symlink, or content compressed inline
GitCallInline ==
  /\ giPc = "map" /\ Mapping /\ InTurn
  /\ \E entry \in {Filtered(giEntries, srcExcl)[NextCall]} :
       /\ ~(HasContent(entry) /\ FetchFails(entry))
       /\ ~(HasContent(entry) /\ Pooled(giConc, Filtered(giEntries, srcExcl), entry.content))
       /\ giCalls' = [giCalls EXCEPT ![NextCall] =
            [pc |-> "done", reply |-> <<>>, via |-> IF HasContent(entry) THEN "inline" ELSE "",
             steps |-> StepsBefore(giConc, giCalls, NextCall, entry)
                         \o StepsAfter(giConc, giCalls, NextCall, entry,
                                       IF HasContent(entry) THEN Len(brotliCompress(entry.content)) ELSE 0),
             record |-> IF HasContent(entry) THEN WithContent(BaseRecord(entry), brotliCompress(entry.content))
                        ELSE BaseRecord(entry),
             result |-> packItem(IF HasContent(entry)
                                 THEN WithContent(BaseRecord(entry), brotliCompress(entry.content))
                                 ELSE BaseRecord(entry))]]
  /\ UNCHANGED <<giPc, pool, workers, gitUnchanged>>

\* a callback that reaches await getPool().runTask({ buffer: content })
GitCallPooled ==
  /\ giPc = "map" /\ Mapping /\ InTurn
  /\ \E entry \in {Filtered(giEntries, srcExcl)[NextCall]} :
       /\ HasContent(entry) /\ ~FetchFails(entry)
       /\ Pooled(giConc, Filtered(giEntries, srcExcl), entry.content)
       /\ giCalls' = [giCalls EXCEPT ![NextCall] =
            [pc |-> "waiting", reply |-> <<>>, record |-> BaseRecord(entry), result |-> <<>>,
             via |-> "pool", steps |-> StepsBefore(giConc, giCalls, NextCall, entry)]]
       /\ \E made \in {IF pool.made THEN [pool |-> pool, workers |-> workers]
                       ELSE [pool |-> newWorkerPool(giConc.threads),
                             workers |-> [w \in 1..Max(1, giConc.threads) |-> WorkerIdle]]} :
            \E next \in {runTask(made.pool, made.workers, entry.content, NextCall)} :
              pool' = next.pool /\ workers' = next.workers
  /\ UNCHANGED <<giPc, gitUnchanged>>

\* the worker thread: its message handler compresses and posts the reply
WorkerCompress(w) ==
  /\ workers[w].st = "posted"
  /\ workers' = [workers EXCEPT ![w] = [st |-> "replied", id |-> @.id, buffer |-> brotliCompress(@.buffer)]]
  /\ UNCHANGED <<giCalls, giPc, pool, gitUnchanged>>

\* worker.on("message"): resolve the pending task, make the worker idle,
\* runNext
PoolOnMessage(w) ==
  /\ MainIdle
  /\ workers[w].st = "replied"
  /\ giCalls' = [i \in DOMAIN giCalls |->
                   IF giCalls[i].pc = "waiting"
                      /\ \E t \in PendingGet(pool.pending, workers[w].id) : t.call = i
                   THEN [giCalls[i] EXCEPT !.pc = "resolved", !.reply = workers[w].buffer]
                   ELSE giCalls[i]]
  /\ \E next \in {runNext([pool EXCEPT
                             !.pending = IF PendingGet(pool.pending, workers[w].id) = {} THEN @
                                         ELSE {t \in @ : t.id # workers[w].id},
                             !.idle = Append(@, w)],
                          [workers EXCEPT ![w] = WorkerIdle])} :
       pool' = next.pool /\ workers' = next.workers
  /\ UNCHANGED <<giPc, gitUnchanged>>

\* the callback after its await: the record gets its content and is packed
GitCallResume(i) ==
  /\ giPc \in {"map", "failed"} /\ giCalls[i].pc = "resolved"
  /\ giCalls' = [giCalls EXCEPT ![i] =
       [pc |-> "done", reply |-> <<>>, via |-> giCalls[i].via,
        steps |-> giCalls[i].steps
                    \o StepsAfter(giConc, giCalls, i, Filtered(giEntries, srcExcl)[i], Len(giCalls[i].reply)),
        record |-> WithContent(giCalls[i].record, giCalls[i].reply),
        result |-> packItem(WithContent(giCalls[i].record, giCalls[i].reply))]]
  /\ UNCHANGED <<giPc, pool, workers, gitUnchanged>>

\* the results are taken as soon as every callback has started
PromiseAll_Unawaited(calls) == \A i \in DOMAIN calls : calls[i].pc # "new"

\* await Promise.all(...) (index mode), await walk("") (filesystem mode):
\* every callback has returned its blob
PromiseAll(calls) == \A i \in DOMAIN calls : calls[i].pc = "done"

\* Promise.all has every result: the pool is closed, the results returned
GitReturn ==
  /\ giPc = "map" /\ PromiseAll(giCalls)
  /\ giPc' = "done"
  /\ collected' = [i \in DOMAIN giCalls |-> giCalls[i].result]
  /\ workers' = [w \in DOMAIN workers |-> [workers[w] EXCEPT !.st = "terminated"]]
  /\ UNCHANGED <<giCalls, pool, giEntries, giConc, srcExcl, srcTree, codecVars, textVars, restoreVars>>

GitNext ==
  \/ GitCallInline
  \/ GitCallPooled
  \/ \E w \in DOMAIN workers : WorkerCompress(w)
  \/ \E w \in DOMAIN workers : PoolOnMessage(w)
  \/ \E i \in DOMAIN giCalls : GitCallResume(i)
  \/ GitReturn

SpecGit == GitInit /\ [][GitNext]_vars

\* the blob collection returns for an entry when concurrency is disabled
InlineBlob(entry) ==
  packItem(IF HasContent(entry) THEN WithContent(BaseRecord(entry), brotliCompress(entry.content))
           ELSE BaseRecord(entry))

\* a blob decompressed: its path and its content
BlobPath(blob) == decodePayload(blob, <<98, 114>>).value.p
BlobContent(blob) ==
  IF Has(decodePayload(blob, <<98, 114>>).value, "c")
  THEN decodeContent(decodePayload(blob, <<98, 114>>).value).value
  ELSE <<>>

\* the blob is the record of the entry, with the entry's own content
BlobOf(blob, entry) ==
  /\ decodePayload(blob, <<98, 114>>).ok
  /\ BlobPath(blob) = entry.path
  /\ Has(decodePayload(blob, <<98, 114>>).value, "c") = HasContent(entry)
  /\ HasContent(entry) => BlobContent(blob) = entry.content

\* C7: whatever the order in which the workers complete, the blob of every
\* finished callback is the record of its own entry with that entry's
\* content, and the sequence returned is, entry by entry, in enumeration
\* order and equal in path and content to the one produced with
\* concurrency disabled.
C7_OrderIndependent ==
  /\ \A i \in DOMAIN giCalls :
       giCalls[i].pc = "done" => BlobOf(giCalls[i].result, Filtered(giEntries, srcExcl)[i])
  /\ giPc = "done" =>
       /\ Len(collected) = Len(Filtered(giEntries, srcExcl))
       /\ \A i \in DOMAIN collected :
            /\ BlobOf(collected[i], Filtered(giEntries, srcExcl)[i])
            /\ BlobPath(collected[i]) = BlobPath(InlineBlob(Filtered(giEntries, srcExcl)[i]))
            /\ BlobContent(collected[i]) = BlobContent(InlineBlob(Filtered(giEntries, srcExcl)[i]))

\* two pooled tasks, the second one answered and packed while the first
\* one still waits for its worker
C7_Witness ==
  /\ giPc = "map" /\ Len(giCalls) = 3 /\ pool.made /\ pool.taskId >= 2
  /\ giCalls[1].pc = "waiting" /\ giCalls[2].pc = "done"
  /\ giEntries[1].content = <<7>> /\ giEntries[2].content = <<1, 2, 3>>
  /\ BlobContent(giCalls[2].result) = <<1, 2, 3>>

----------------------------------------------------------------------------
(* Exclusion in both collection modes: a filesystem-mode run up to its     *)
(* item list, or an index-mode run, under each exclude list.               *)

ExcludeGitInit ==
  /\ giEntries \in SeqsUpTo(EntryPool, 2)
  /\ srcExcl \in ExcludesPool
  /\ giConc \in {c \in ConcPool : c.threads = 2 /\ c.totalSizeBytes = 0}
  /\ giCalls = [i \in DOMAIN Filtered(giEntries, srcExcl) |-> NewCall]
  /\ giPc = "map"
  /\ pool = NoPool /\ workers = <<>>
  /\ srcTree = <<>> /\ collected = <<>>
  /\ CodecIdle /\ TextIdle /\ RestoreIdle

SpecExclude == (FsInit \/ ExcludeGitInit) /\ [][FsNext \/ GitNext]_vars

\* the pattern matches the path piece by piece: a "*" stands for a run
\* without "/", a "**" for a run without "/" too unless deep, any other
\* piece of the pattern for itself
PiecesMatch(pattern, p, deep) ==
  \E cut \in [0..Len(pattern) -> 0..Len(p)] :
    /\ cut[0] = 0 /\ cut[Len(pattern)] = Len(p)
    /\ \A i \in 1..Len(pattern) :
         /\ cut[i - 1] <= cut[i]
         /\ IF pattern[i] = "*" \/ (pattern[i] = "**" /\ ~deep)
            THEN \A k \in (cut[i - 1] + 1)..cut[i] : p[k] # Sep
            ELSE IF pattern[i] = "**" THEN TRUE
            ELSE cut[i] = cut[i - 1] + 1 /\ p[cut[i]] = pattern[i]

\* the path is the directory `dir` or lies beneath it
AtOrBeneath(dir, p) ==
  \E n \in 1..Len(p) : SubSeq(p, 1, n) = dir /\ (n = Len(p) \/ p[n + 1] = Sep)

\* what a pattern is said to match, pattern and path both normalized
PatternMatches(pattern, p, deep) ==
  IF pattern[Len(pattern)] = Sep THEN AtOrBeneath(SubSeq(pattern, 1, Len(pattern) - 1), p)
  ELSE IF \E i \in DOMAIN pattern : pattern[i] \in {"*", "**"} THEN PiecesMatch(pattern, p, deep)
  ELSE p = pattern

SaidExcluded(excludes, relPath, deep) ==
  \E i \in DOMAIN excludes :
    PatternMatches(normalizePattern(excludes[i]), normalizeRelPath(relPath), deep)

\* the leaves of the source tree a filesystem-mode run is to record: no
\* ".git", not the output, neither they nor a directory above them excluded
FsExpected(deep) ==
  {RelPathOf(loc) : loc \in {l \in LeavesOf(srcTree, <<>>) :
     \A n \in 1..Len(l) :
       /\ l[n] # ".git" /\ SubSeq(l, 1, n) # OutputLoc
       /\ ~SaidExcluded(srcExcl, RelPathOf(SubSeq(l, 1, n)), deep)}}

\* the staged entries an index-mode run is to record
GitExpected(deep) ==
  {i \in DOMAIN giEntries :
     /\ ~SaidExcluded(srcExcl, giEntries[i].path, deep)
     /\ giEntries[i].oldPath = NoPath \/ ~SaidExcluded(srcExcl, giEntries[i].oldPath, deep)}

\* in both modes the items are those of the paths no pattern matches; an
\* index-mode callback (which fetches the content) and a pool task exist
\* only for those
ExclusionHolds(deep) ==
  /\ (giPc = "idle" /\ rPc # "collect") =>
        /\ {collected[i].p : i \in DOMAIN collected} = FsExpected(deep)
        /\ \A i \in DOMAIN collected : ~excludeMatcher(srcExcl, collected[i].p)
  /\ giPc = "done" =>
        /\ Len(collected) = Cardinality(GitExpected(deep))
        /\ Len(giCalls) = Cardinality(GitExpected(deep))
  /\ giPc \in {"map", "done"} =>
        /\ \A i \in DOMAIN giCalls : ~excludeMatcher(srcExcl, Filtered(giEntries, srcExcl)[i].path)
        /\ \A i \in DOMAIN collected : BlobPath(collected[i]) \in {giEntries[j].path : j \in GitExpected(deep)}
        /\ pool.made => \A t \in pool.pending \cup {pool.queue[k] : k \in DOMAIN pool.queue} :
              ~excludeMatcher(srcExcl, Filtered(giEntries, srcExcl)[t.call].path)

\* C12 as stated: no item of a matched path is recorded, fetched or
\* compressed, where a pattern ending in "/" matches the directory and all
\* beneath it, every "*" a run of characters without "/", and any other
\* pattern the identical path only.
C12_ExcludedNeverCollected == ExclusionHolds(FALSE)

\* C12 amended: the same, where "**" matches any run of characters, "/"
\* included, and a single "*" a run without "/".
C12_ExcludedNeverCollectedDeep == ExclusionHolds(TRUE)

C12_Witness ==
  /\ giPc = "idle" /\ rPc = "start" /\ srcExcl = <<<<"**", "a">>>>
  /\ <<"d", "a">> \in DOMAIN srcTree /\ <<"a">> \in DOMAIN srcTree /\ <<"b">> \in DOMAIN srcTree
  /\ {collected[i].p : i \in DOMAIN collected} = {<<"b">>}

----------------------------------------------------------------------------
(* Collection runs with faults, in both modes: a content fetch that        *)
(* throws, a worker that raises an error.  In filesystem mode giEntries is *)
(* the sequence of files walk meets.                                       *)

FileEntry(path, content, fails) ==
  [kind |-> "A", path |-> path, oldPath |-> NoPath, mode |-> "100644", content |-> content,
   target |-> <<>>, fails |-> fails]

PoolEntries ==
  { FileEntry(<<"a">>, <<7>>, FALSE),
    FileEntry(<<"b">>, <<1, 2, 3>>, FALSE),
    FileEntry(<<"x">>, <<5>>, TRUE) }

PoolConfigs ==
  LET index == { RunConfig(FALSE, 2, 0, 0, 0),
                 RunConfig(TRUE, 2, 2, 9, 0),
                 RunConfig(TRUE, 2, 9, 2, 0),
                 RunConfig(TRUE, 2, 9, 9, 4),
                 RunConfig(TRUE, 1, 0, 9, 0) }
  IN index \cup {[c EXCEPT !.mode = "fs"] : c \in index}
           \cup {[RunConfig(TRUE, 1, 0, 9, 0) EXCEPT !.mode = "fs", !.progress = TRUE]}

PoolInit ==
  /\ giEntries \in SeqsUpTo(PoolEntries, MaxEntries)
  /\ srcExcl = <<>>
  /\ giConc \in PoolConfigs
  /\ giCalls = [i \in DOMAIN giEntries |-> NewCall]
  /\ giPc = "map"
  /\ pool = NoPool /\ workers = <<>>
  /\ srcTree = <<>> /\ collected = <<>>
  /\ CodecIdle /\ TextIdle /\ RestoreIdle

\* runGit(["show", ...]) or fs.readFileSync throws: the callback rejects
CallFetchFails ==
  /\ giPc = "map" /\ Mapping /\ InTurn
  /\ HasContent(Filtered(giEntries, srcExcl)[NextCall])
  /\ FetchFails(Filtered(giEntries, srcExcl)[NextCall])
  /\ giCalls' = [giCalls EXCEPT ![NextCall].pc = "rejected"]
  /\ UNCHANGED <<giPc, pool, workers, gitUnchanged>>

\* worker.on("error"): a worker raises an error (at work, or idle, as when
\* its script fails) and exits; the handler rejects and deletes every
\* entry of this.pending
WorkerError(w) ==
  /\ MainIdle
  /\ workers[w].st \in {"idle", "posted"}
  /\ giCalls' = [i \in DOMAIN giCalls |->
                   IF giCalls[i].pc = "waiting" /\ \E t \in pool.pending : t.call = i
                   THEN [giCalls[i] EXCEPT !.pc = "rejected"]
                   ELSE giCalls[i]]
  /\ pool' = [pool EXCEPT !.pending = {}]
  /\ workers' = [workers EXCEPT ![w].st = "dead"]
  /\ UNCHANGED <<giPc, gitUnchanged>>

\* a callback has rejected: Promise.all (await walk) rejects and the
\* collection throws; pool.close() is not reached
RunFails ==
  /\ giPc = "map"
  /\ \E i \in DOMAIN giCalls : giCalls[i].pc = "rejected"
  /\ giConc.mode = "fs" \/ ~Mapping
  /\ giPc' = "failed"
  /\ UNCHANGED <<giCalls, pool, workers, gitUnchanged>>

PoolNext ==
  \/ GitNext
  \/ CallFetchFails
  \/ \E w \in DOMAIN workers : WorkerError(w)
  \/ RunFails

SpecPool == PoolInit /\ [][PoolNext]_vars

\* the task of callback i is the one worker w is at work on
AssignedTo(i, w) ==
  workers[w].st = "posted" /\ \E t \in pool.pending : t.call = i /\ t.id = workers[w].id

\* C16: in the step in which a worker raises an error, a task is rejected
\* only if it is assigned to that worker: a task in flight on another
\* worker, and a task in the queue, stays as it is.
C16_FaultIsolated ==
  [][\A w \in DOMAIN workers :
       (workers[w].st # "dead" /\ workers'[w].st = "dead") =>
         \A i \in DOMAIN giCalls :
           (giCalls[i].pc = "waiting" /\ giCalls'[i].pc = "rejected") => AssignedTo(i, w)]_vars

\* C17: when a collection run has ended, with its items or with a failure,
\* every worker spawned during it has been terminated (or has exited).
C17_WorkersTerminated ==
  giPc \in {"done", "failed"} => \A w \in DOMAIN workers : workers[w].st \in {"terminated", "dead"}

\* C18: the step that closes the pool and returns the items is taken only
\* with the pool's queue empty, no task pending and no worker at work or
\* with an undelivered reply, and every pooled callback has its own
\* entry's content in the blob returned for it.
C18_CloseAfterAllTasks ==
  [][(giPc = "map" /\ giPc' = "done") =>
       /\ pool.queue = <<>> /\ pool.pending = {}
       /\ \A w \in DOMAIN workers : workers[w].st \notin {"posted", "replied"}
       /\ Len(collected') = Len(giEntries)
       /\ \A i \in DOMAIN giCalls :
            giCalls[i].via = "pool" => BlobContent(collected'[i]) = giEntries[i].content]_vars

\* a run that used the pool for two tasks and has closed it
C18_Witness ==
  /\ giPc = "done" /\ pool.made /\ pool.taskId >= 2
  /\ \A w \in DOMAIN workers : workers[w].st = "terminated"
  /\ Len(collected) = Len(giEntries) /\ Len(giEntries) >= 2

\* the raw bytes of all items of the run
RawTotal == Sum([i \in DOMAIN giEntries |-> Len(giEntries[i].content)])

\* item i meets a threshold: the item count, the total raw size or its own
\* raw size reaches its threshold, concurrency being enabled
Qualifies(i) ==
  /\ giConc.enabled
  /\ \/ Len(giEntries) >= giConc.fileCountThreshold
     \/ RawTotal >= giConc.totalSizeBytes
     \/ Len(giEntries[i].content) >= giConc.bigFileBytes

\* C19: a regular-file item is compressed on the pool exactly when
\* concurrency is enabled and the item count, the total raw size or its own
\* raw size reaches its threshold, inline otherwise; no worker is spawned
\* when no item qualifies.
C19_PoolExactlyAtThreshold ==
  /\ \A i \in DOMAIN giCalls :
       giCalls[i].via # "" => (giCalls[i].via = "pool" <=> Qualifies(i))
  /\ (\A i \in DOMAIN giCalls : ~Qualifies(i)) => (~pool.made /\ workers = <<>>)

\* C20: once an item of a run has been compressed on the pool, every later
\* regular-file item of the run is compressed on the pool.
C20_PoolUseIsSticky ==
  \A i \in DOMAIN giCalls : \A j \in DOMAIN giCalls :
    (i < j /\ giCalls[i].via = "pool" /\ giCalls[j].via # "") => giCalls[j].via = "pool"

----------------------------------------------------------------------------
(* Collection with and without a progress callback, in both modes.  In     *)
(* filesystem mode giEntries is the sequence of files and symlinks walk    *)
(* meets.                                                                  *)

ProgressConfigs ==
  {[c EXCEPT !.mode = m, !.progress = sink] :
     c \in {RunConfig(FALSE, 2, 0, 0, 0), RunConfig(TRUE, 2, 0, 9, 0), RunConfig(TRUE, 2, 9, 2, 0)},
     m \in {"index", "fs"}, sink \in BOOLEAN}

WalkEntries == {e \in EntryPool : e.kind = "A" /\ e.mode \in {"100644", "120000"}}
                 \cup {StagedEntry("A", <<"b">>, NoPath, "100755", <<1, 2, 3>>, <<>>)}

ProgressInit ==
  /\ giConc \in ProgressConfigs
  /\ giEntries \in SeqsUpTo(IF giConc.mode = "fs" THEN WalkEntries ELSE EntryPool, MaxEntries)
  /\ srcExcl = <<>>
  /\ giCalls = [i \in DOMAIN giEntries |-> NewCall]
  /\ giPc = "map"
  /\ pool = NoPool /\ workers = <<>>
  /\ srcTree = <<>> /\ collected = <<>>
  /\ CodecIdle /\ TextIdle /\ RestoreIdle

SpecProgress == ProgressInit /\ [][GitNext]_vars

\* the positions in the steps of a callback at which it did `what`
StepsAt(steps, what) == {k \in DOMAIN steps : steps[k].ev = what}

\* the compressed bytes in the record of a blob (0 when it has no content)
BrOf(blob) ==
  IF Has(decodePayload(blob, <<98, 114>>).value, "c")
  THEN Len(B64Decode(decodePayload(blob, <<98, 114>>).value.c))
  ELSE 0

\* C23: in a run that completes with a progress callback, every item has
\* exactly one "processing" event, before its compression begins, and
\* exactly one "done" event, after it, with the item's own index and sizes.
C23_EventsPerItem ==
  (giPc = "done" /\ giConc.progress) =>
    \A i \in DOMAIN giCalls :
      /\ Cardinality(StepsAt(giCalls[i].steps, "processing")) = 1
      /\ Cardinality(StepsAt(giCalls[i].steps, "done")) = 1
      /\ \A e \in StepsAt(giCalls[i].steps, "processing") : \A c \in StepsAt(giCalls[i].steps, "compress") :
           e < c
      /\ \A e \in StepsAt(giCalls[i].steps, "done") :
           /\ \A c \in StepsAt(giCalls[i].steps, "compress") : c < e
           /\ giCalls[i].steps[e].index = i
           /\ giCalls[i].steps[e].raw = RawOf(giEntries[i])
           /\ giCalls[i].steps[e].br = BrOf(collected[i])

\* the choice the same run makes when no callback is passed
ChoiceWithoutSink(i) ==
  IF ~HasContent(giEntries[i]) THEN ""
  ELSE IF Pooled([giConc EXCEPT !.progress = FALSE], giEntries, giEntries[i].content) THEN "pool"
  ELSE "inline"

\* C24: with a progress callback the run returns the items of the run
\* without one, in the same order, and takes for each item the same choice
\* between inline and pooled compression.
C24_SinkIsObservational ==
  giPc = "done" =>
    /\ Len(collected) = Len(giEntries)
    /\ \A i \in DOMAIN giCalls :
         /\ giCalls[i].via = ChoiceWithoutSink(i)
         /\ BlobPath(collected[i]) = giEntries[i].path

----------------------------------------------------------------------------
(* The Item invariant on what collection emits.                            *)

\* which of submodule flag, symlink target and content a record carries
Carried(record) ==
  {key \in {"sm", "t", "c"} : Has(record, key)}

ItemInvariant(record) ==
  IF record.k = "D" THEN Carried(record) = {} ELSE Cardinality(Carried(record)) = 1

\* the i-th record returned: the filesystem-mode run of the model keeps the
\* records, the index-mode run their packed blobs
Emitted(i) ==
  IF giPc = "idle" THEN collected[i] ELSE decodePayload(collected[i], <<98, 114>>).value

\* C25: every record collection emits, in either mode, carries none of
\* submodule flag, symlink target and content when it is a Delete, and
\* exactly one of them otherwise.
C25_ItemInvariant ==
  /\ \A i \in DOMAIN collected : ItemInvariant(Emitted(i))
  /\ \A i \in DOMAIN giCalls :
       giCalls[i].pc = "done" => ItemInvariant(decodePayload(giCalls[i].result, <<98, 114>>).value)

\* an index-mode run that returned a Delete record and a symlink record
C25_Witness ==
  /\ giPc = "done" /\ Len(collected) = 2
  /\ Emitted(1).k = "D" /\ Carried(Emitted(2)) = {"t"}

\* a filesystem-mode run that returned a file record and a symlink record
C25_WitnessFs ==
  /\ giPc = "idle" /\ rPc = "start" /\ Len(collected) >= 2
  /\ \E i \in DOMAIN collected : Carried(Emitted(i)) = {"c"}
  /\ \E i \in DOMAIN collected : Carried(Emitted(i)) = {"t"}

----------------------------------------------------------------------------
(* getBackupInfo: src/restore.js                                           *)

\* getBackupInfo(options): the summary of the artifact loadBackup returned,
\* or the error it threw
getBackupInfo(file, backup) ==
  IF ~backup.ok THEN backup
  ELSE [ok |-> TRUE,
        value |-> [version |-> backup.value.version,
                   payloadEncoding |-> backup.value.payloadEncoding,
                   items |-> Len(backup.value.data),
                   encrypted |-> ~StartsWith(Trim(file), <<Brace>>) /\ ~StartsWith(Trim(file), PlainTag)]]

\* plain artifacts of an older writer: the compressed payload in base64
\* with no prefix
UntaggedFiles ==
  {SubSeq(file, Len(PlainTag) + 1, Len(file)) : file \in PlainFiles}

InfoInit ==
  /\ fs \in FsPool
  /\ rFile \in FilePool \cup UntaggedFiles
  /\ rPw \in {Null} \cup PwPool
  /\ rBackup = NoValue /\ rItems = <<>> /\ rIdx = 0
  /\ restored = 0 /\ removed = 0 /\ skipped = 0
  /\ rPc = "start" /\ rErr = "" /\ rLog = <<>>
  /\ CodecIdle /\ TextIdle /\ CollectIdle

InfoGet ==
  /\ rPc = "start"
  /\ \E backup \in {loadBackup(rFile, rPw)} :
       \E info \in {getBackupInfo(rFile, backup)} :
         IF info.ok THEN rPc' = "info" /\ rBackup' = info.value /\ UNCHANGED rErr
         ELSE rPc' = "failed" /\ rErr' = info.err /\ UNCHANGED rBackup
  /\ UNCHANGED <<fs, rFile, rPw, rItems, rIdx, restored, removed, skipped, rLog,
                 codecVars, textVars, collectVars>>

SpecInfo == InfoInit /\ [][InfoGet]_vars

\* C26: getBackupInfo reports encrypted = true exactly when the artifact is
\* in the encrypted format: not for an artifact with the plain prefix, a
\* plain artifact without prefix or an all-JSON artifact.
C26_EncryptedFlag ==
  rPc = "info" =>
    (rBackup.encrypted <=>
       (/\ ~StartsWith(Trim(rFile), <<Brace>>) /\ ~StartsWith(Trim(rFile), PlainTag)
        /\ isEncryptedText(Trim(rFile))))

----------------------------------------------------------------------------
(* The pool under fair delivery: a worker that was posted a message runs,  *)
(* a reply that is ready is delivered, and the main thread runs the        *)
(* callback that is due.  A fault is never owed.                           *)

\* the steps of the main thread that run a callback of the collection
MainStep ==
  \/ GitCallInline
  \/ GitCallPooled
  \/ \E i \in DOMAIN giCalls : GitCallResume(i)
  \/ CallFetchFails

\* MainStep can take a step: the guards of its actions
MainEnabled ==
  \/ giPc = "map" /\ Mapping /\ InTurn
  \/ giPc \in {"map", "failed"} /\ \E i \in DOMAIN giCalls : giCalls[i].pc = "resolved"

\* weak fairness of the worker threads, of the delivery of replies and of
\* the end of the run; for MainStep the same, WF_vars(MainStep), with the
\* enabling condition written out
PoolFairness ==
  /\ WF_vars(\E w \in DOMAIN workers : WorkerCompress(w))
  /\ WF_vars(\E w \in DOMAIN workers : PoolOnMessage(w))
  /\ WF_vars(GitReturn)
  /\ WF_vars(RunFails)
  /\ ([]<>(~MainEnabled) \/ []<><<MainStep>>_vars)

SpecPoolFair == PoolInit /\ [][PoolNext]_vars /\ PoolFairness

\* the promise of runTask of callback i is not settled yet / is settled
Unsettled(i) == i \in DOMAIN giCalls /\ giCalls[i].pc = "waiting"
Settled(i) == i \in DOMAIN giCalls /\ giCalls[i].pc \in {"resolved", "rejected", "done"}

\* C28: every task submitted through runTask eventually settles, also one
\* that is in the queue when a worker raises an error.
C28_TasksSettle ==
  \A i \in 1..MaxEntries : Unsettled(i) ~> Settled(i)

----------------------------------------------------------------------------
(* The bookkeeping of WorkerPool.                                          *)

\* the dispatched tasks that await the reply of worker w
AwaitedFrom(w) == {t \in pool.pending : t.worker = w}

Busy == {w \in DOMAIN workers : AwaitedFrom(w) # {}}

\* C29: no worker has more than one dispatched task awaiting its reply, no
\* worker is twice on the idle list, an idle worker has no task awaiting its
\* reply, idle plus busy workers never exceed the pool size, and a task id
\* is in at most one of the queue and the pending map.
C29_PoolBookkeeping ==
  pool.made =>
    /\ \A w \in DOMAIN workers : Cardinality(AwaitedFrom(w)) <= 1
    /\ \A a \in DOMAIN pool.idle : \A b \in DOMAIN pool.idle : a # b => pool.idle[a] # pool.idle[b]
    /\ \A a \in DOMAIN pool.idle : AwaitedFrom(pool.idle[a]) = {}
    /\ Len(pool.idle) + Cardinality(Busy) <= pool.size
    /\ \A q \in DOMAIN pool.queue :
         /\ \A t \in pool.pending : t.id # pool.queue[q].id
         /\ \A r \in DOMAIN pool.queue : q # r => pool.queue[q].id # pool.queue[r].id
    /\ \A t \in pool.pending : \A u \in pool.pending : t.id = u.id => t = u

\* both workers of a pool of two at work and a third task in the queue
C29_Witness ==
  /\ pool.made /\ pool.size = 2 /\ pool.idle = <<>>
  /\ Busy = {1, 2} /\ Len(pool.queue) = 1
  /\ pool.queue[1].id = 3

====
